---------------------------- MODULE Spec2Model ----------------------------
(***************************************************************************)
(* Model of the sprut message router (github.com/udisondev/sprut):         *)
(*   - the server side of the authentication handshake (authenticate),     *)
(*   - the accept loop with its pool of auth buffers (Serve),              *)
(*   - the connection handler with the peer registry (handleConn),         *)
(*   - the peer: close-once, write pump, broker delivery handler (Peer),   *)
(*   - the recipient validator (isValidHexPubKey),                         *)
(*   - the read pump and the handling of one client frame (handleMessage), *)
(*   - the wire protocol: the six frames and the signing input (protocol), *)
(*   - Serve from its accept loop to its return (shutdown),                *)
(*   - the client's pumps (pkg/client),                                    *)
(*   - a message on its way from sender to recipient.                      *)
(*                                                                         *)
(* The specifications share the variables:                                 *)
(*   SpecAuth      one handshake, step by step, against every client input;*)
(*   FairSpecAuth  SpecAuth with the deadline of the handshake passing;    *)
(*   Spec          the accept loop and the connection handlers;            *)
(*   FairSpec      Spec with every runnable goroutine eventually scheduled;*)
(*   SpecHex       isValidHexPubKey on a set of recipients;                *)
(*   SpecPump      the read pump of one peer, frame by frame;              *)
(*   SpecCodec     Encode, the decoders, BuildSignedData and the server_id *)
(*                 of Serve, each on a set of inputs;                      *)
(*   SpecShutdown  Serve and its handlers when the context is cancelled;   *)
(*   SpecClient    runLoop of the client with its two pumps;               *)
(*   SpecRelay     senders, broker, recipient peer and recipient client.   *)
(***************************************************************************)
EXTENDS Integers, Sequences, FiniteSets, TLC

(***************************************************************************)
(* Protocol constants (pkg/protocol/types.go)                              *)
(***************************************************************************)
TypeClientHello == 1
TypeServerChallenge == 2
TypeClientResponse == 3
TypeAuthResult == 4
AuthStatusOK == 0
AuthStatusInvalidSig == 2
ProtocolVersion == "goro-auth-v1"

\* the tolerance of the "timestamp in future" check, in seconds
FutureSkew == 60

(***************************************************************************)
(* Bounds of the model                                                     *)
(***************************************************************************)
\* the server clock reading from which the clock values are drawn
BaseTime == 1000
\* uint64 arithmetic wraps at 2^64; the model keeps the wrap at a modulus
\* that is larger than every clock reading and every TTL it uses
WordMod == 1073741824

Keys == {"kA", "kB"}
Challenges == {"ch1", "ch2"}
Bindings == {"cb1", "cb2"}
ServerID == "srv"
\* challengeTTL values, in milliseconds (time.Duration of the configuration)
TTLs == {60000, 2000, 1500}
\* differences between the two clock readings of one handshake, in seconds
ClockSteps == {-61, -60, -1, 0, 1, 2, 3, 60, 61}
\* the type tags a client may send
Tags == {TypeClientHello, TypeClientResponse, TypeAuthResult}

ReadErr == "read error"
\* a read of one byte that failed (EOF, reset, deadline)
NoByte == -1
WriteErr == "write error"
Fail == "error"
Ok == "ok"

(***************************************************************************)
(* ed25519, symbolically: a signature names the key pair that made it and  *)
(* the data it was made over; it verifies under that public key and that   *)
(* data only.                                                              *)
(***************************************************************************)
Sign(key, data) == [signer |-> key, data |-> data]

\* a verification that looks at the signed data and not at the signer
VerifyDataOnly(pubKey, data, sig) == sig.data = data

Verify(pubKey, data, sig) == sig.signer = pubKey /\ sig.data = data

NoSig == [signer |-> "none", data |-> <<>>]

\* a read of the 64 signature bytes that failed
SigReadErr == [signer |-> "read error", data |-> <<>>]

\* protocol.BuildSignedDataTo: the signing input, field by field
BuildSignedDataTo(challenge, timestamp, serverID, clientPubKey, channelBinding) ==
    <<ProtocolVersion, challenge, timestamp, serverID, clientPubKey, channelBinding>>

\* uint64 subtraction
Sub64(a, b) == (a - b) % WordMod

\* uint64(challengeTTL.Seconds()): whole seconds, the fraction dropped
TTLSeconds(ttl) == ttl \div 1000

(***************************************************************************)
(* authenticate, as a state machine over one handshake record h.           *)
(* h.pc is the position in the function; the buf* fields are the regions   *)
(* of the auth buffer; timestamp, cb and now are its local variables;      *)
(* sent is what it wrote to the connection; deadline is the connection     *)
(* deadline, deadlineSets the number of times it was armed, expired        *)
(* whether the armed deadline has passed; err is its return value once     *)
(* pc = "done".                                                            *)
(***************************************************************************)
NewHandshake(bufPubKey, ttl) ==
    [pc |-> "start", deadline |-> "none", deadlineSets |-> 0,
     expired |-> FALSE, ttl |-> ttl,
     bufPubKey |-> bufPubKey, bufChallenge |-> "stale", bufTimestamp |-> 0,
     bufServerID |-> ServerID, bufSignature |-> NoSig,
     timestamp |-> 0, cb |-> "none", now |-> 0,
     sent |-> <<>>, err |-> "running"]

\* a return before the deferred deadline reset is registered
ReturnEarly(h, e) == [h EXCEPT !.pc = "done", !.err = e]

\* a return that leaves the handshake deadline on the connection
ReturnLeavingDeadline(h, e) == [h EXCEPT !.pc = "done", !.err = e]

\* a return after it: the deferred SetDeadline(time.Time{}) runs
Return(h, e) == [h EXCEPT !.pc = "done", !.err = e, !.deadline = "cleared"]

\* an entry that goes on to the first read without arming the deadline
SetDeadlineStepUnarmed(h, x) ==
    IF x # Ok THEN ReturnEarly(h, "set deadline")
    ELSE [h EXCEPT !.pc = "helloType"]

\* conn.SetDeadline(time.Now().Add(timeout)); x: Ok or Fail
SetDeadlineStep(h, x) ==
    IF x # Ok THEN ReturnEarly(h, "set deadline")
    ELSE [h EXCEPT !.pc = "helloType", !.deadline = "set",
                   !.deadlineSets = h.deadlineSets + 1]

\* 1. read the type tag; x: a tag or NoByte
ReadHelloTypeStep(h, x) ==
    IF x = NoByte THEN Return(h, "read hello type")
    ELSE IF x # TypeClientHello THEN Return(h, "unexpected message type")
    ELSE [h EXCEPT !.pc = "pubKey"]

\* 2. read the public key into its region; x: a key or ReadErr
ReadPubKeyStep(h, x) ==
    IF x = ReadErr THEN Return(h, "read pubkey")
    ELSE [h EXCEPT !.pc = "challenge", !.bufPubKey = x]

\* 3. rand.Read into the challenge region; x: a challenge or Fail
GenChallengeStep(h, x) ==
    IF x = Fail THEN Return(h, "generate challenge")
    ELSE [h EXCEPT !.pc = "sendChallenge", !.bufChallenge = x]

\* 4.-6. timestamp := now, ServerChallenge written in one write;
\* x.now: the clock, x.write: Ok or WriteErr
SendChallengeStep(h, x) ==
    LET h1 == [h EXCEPT !.timestamp = x.now, !.bufTimestamp = x.now]
        frame == <<TypeServerChallenge, h1.bufChallenge, h1.bufTimestamp, h1.bufServerID>>
    IN  IF x.write # Ok THEN Return(h1, "send challenge")
        ELSE [h1 EXCEPT !.pc = "respType", !.sent = Append(h1.sent, frame)]

\* a read of the response's type tag that goes on whatever the tag is
ReadRespTypeStepAnyTag(h, x) ==
    IF x = NoByte THEN Return(h, "read response type")
    ELSE [h EXCEPT !.pc = "signature"]

\* 7. read the type tag of the response; x: a tag or NoByte
ReadRespTypeStep(h, x) ==
    IF x = NoByte THEN Return(h, "read response type")
    ELSE IF x # TypeClientResponse THEN Return(h, "unexpected message type")
    ELSE [h EXCEPT !.pc = "signature"]

\* 8. read the signature into its region; x: a signature or SigReadErr
ReadSignatureStep(h, x) ==
    IF x = SigReadErr THEN Return(h, "read signature")
    ELSE [h EXCEPT !.pc = "verify", !.bufSignature = x]

\* 9.-11. channel binding of this TLS session, signing input, ed25519.Verify;
\* x: the exported binding or Fail
VerifyStep(h, x) ==
    IF x = Fail THEN Return(h, "get channel binding")
    ELSE LET h1 == [h EXCEPT !.cb = x]
             signedData == BuildSignedDataTo(h1.bufChallenge, h1.timestamp,
                               h1.bufServerID, h1.bufPubKey, x)
         IN  IF ~Verify(h1.bufPubKey, signedData, h1.bufSignature)
             THEN Return(h1, "invalid signature")
             ELSE [h1 EXCEPT !.pc = "checkTime"]

\* timestamp > now+60
TimestampInFuture(timestamp, now) == timestamp > now + FutureSkew

\* an expiry test that already refuses a challenge of exactly the TTL's age
ChallengeExpiredAtTTL(timestamp, now, ttl) ==
    Sub64(now, timestamp) >= TTLSeconds(ttl)

\* now-timestamp > uint64(challengeTTL.Seconds()), in uint64
ChallengeExpired(timestamp, now, ttl) ==
    Sub64(now, timestamp) > TTLSeconds(ttl)

\* 12. the replay check; x: the clock, read again
CheckTimestampStep(h, x) ==
    LET h1 == [h EXCEPT !.now = x]
    IN  IF TimestampInFuture(h1.timestamp, x) THEN Return(h1, "timestamp in future")
        ELSE IF ChallengeExpired(h1.timestamp, x, h1.ttl)
             THEN Return(h1, "challenge expired")
        ELSE [h1 EXCEPT !.pc = "sendResult"]

\* 13. AuthResult(OK); x: Ok or WriteErr
SendResultStep(h, x) ==
    IF x # Ok THEN Return(h, "send auth result")
    ELSE Return([h EXCEPT !.sent = Append(h.sent, <<TypeAuthResult, AuthStatusOK>>)], "nil")

AuthStep(h, x) ==
    CASE h.pc = "start" -> SetDeadlineStep(h, x)
      [] h.pc = "helloType" -> ReadHelloTypeStep(h, x)
      [] h.pc = "pubKey" -> ReadPubKeyStep(h, x)
      [] h.pc = "challenge" -> GenChallengeStep(h, x)
      [] h.pc = "sendChallenge" -> SendChallengeStep(h, x)
      [] h.pc = "respType" -> ReadRespTypeStep(h, x)
      [] h.pc = "signature" -> ReadSignatureStep(h, x)
      [] h.pc = "verify" -> VerifyStep(h, x)
      [] h.pc = "checkTime" -> CheckTimestampStep(h, x)
      [] h.pc = "sendResult" -> SendResultStep(h, x)
      [] OTHER -> h

(***************************************************************************)
(* What the environment may feed each step                                 *)
(***************************************************************************)
\* every signature a client can hold: made with any key pair over any
\* signing input (its own, or one captured from another handshake)
Signatures ==
    {Sign(k, BuildSignedDataTo(ch, t, ServerID, pk, cb)) :
        k \in Keys, ch \in Challenges, t \in {BaseTime, BaseTime - 1},
        pk \in Keys, cb \in Bindings}

AuthInputs(h) ==
    CASE h.pc = "start" -> {Ok, Fail}
      [] h.pc = "helloType" -> Tags \cup {NoByte}
      [] h.pc = "pubKey" -> Keys \cup {ReadErr}
      [] h.pc = "challenge" -> Challenges \cup {Fail}
      [] h.pc = "sendChallenge" -> [now : {BaseTime}, write : {Ok, WriteErr}]
      [] h.pc = "respType" -> Tags \cup {NoByte}
      [] h.pc = "signature" -> Signatures \cup {SigReadErr}
      [] h.pc = "verify" -> Bindings \cup {Fail}
      [] h.pc = "checkTime" -> {h.timestamp + d : d \in ClockSteps}
      [] h.pc = "sendResult" -> {Ok, WriteErr}
      [] OTHER -> {}

\* authenticate run to its return on the inputs of one client script
RECURSIVE authenticate(_, _)
authenticate(h, script) ==
    IF h.pc = "done" \/ script = <<>> THEN h
    ELSE authenticate(AuthStep(h, Head(script)), Tail(script))

(***************************************************************************)
(* The server: bounds and configuration                                    *)
(***************************************************************************)
\* connection slots; a slot is used again once its connection is finished
Conns == {"c1", "c2", "c3"}
NoConn == "none"
\* the key pair the client behind each connection slot holds: two sessions
\* of one identity and one session of another
KeyOf(c) == IF c = "c3" THEN "kB" ELSE "kA"
\* the capacity of a peer's outbound queue (scaled down)
WriteBufferSize == 1
\* cfg.Limits.RateLimitBurst (scaled down)
RateLimitBurst == 1
\* cfg.Limits.ChallengeTTL, in milliseconds
ChallengeTTL == 60000

\* a client that holds the key pair k and answers the challenge it was sent
HonestScript(k) ==
    <<Ok, TypeClientHello, k, "ch1", [now |-> BaseTime, write |-> Ok],
      TypeClientResponse,
      Sign(k, BuildSignedDataTo("ch1", BaseTime, ServerID, k, "cb1")),
      "cb1", BaseTime, Ok>>

\* a client that claims k and replays a signature made for another challenge
ReplayScript(k) ==
    [HonestScript(k) EXCEPT
        ![7] = Sign(k, BuildSignedDataTo("ch2", BaseTime, ServerID, k, "cb1"))]

\* the handshakes of a client with the key pair k in which one step fails
FailingScripts(k) ==
    {[HonestScript(k) EXCEPT ![1] = Fail],
     [HonestScript(k) EXCEPT ![2] = NoByte],
     [HonestScript(k) EXCEPT ![2] = TypeClientResponse],
     [HonestScript(k) EXCEPT ![3] = ReadErr],
     [HonestScript(k) EXCEPT ![5] = [now |-> BaseTime, write |-> WriteErr]],
     [HonestScript(k) EXCEPT ![6] = NoByte],
     [HonestScript(k) EXCEPT ![7] = SigReadErr],
     [HonestScript(k) EXCEPT ![8] = Fail],
     [HonestScript(k) EXCEPT ![9] = BaseTime + 61],
     [HonestScript(k) EXCEPT ![9] = BaseTime - 61],
     [HonestScript(k) EXCEPT ![10] = WriteErr]}

\* what the client behind slot c can do: authenticate with its own key, fail
\* a step, or claim another identity with a signature it captured
ServeScripts(c) ==
    {HonestScript(KeyOf(c))} \cup FailingScripts(KeyOf(c))
        \cup {ReplayScript(k) : k \in Keys \ {KeyOf(c)}}

\* what a client may put on an authenticated connection: a hang-up, a frame
\* handleMessage rejects, or a frame addressed to one of `recipients`
ClientInputs(recipients) ==
    {[kind |-> "eof", to |-> "none"], [kind |-> "bad", to |-> "none"]}
        \cup {[kind |-> "msg", to |-> k] : k \in recipients}

\* the environments the server is run in: cfg.Limits.MaxConnections (scaled
\* down), which connection slots are used and which recipients the clients
\* address
Scenarios ==
    {[maxConnections |-> 2, slots |-> Conns, to |-> {}],
     [maxConnections |-> 1, slots |-> {"c1", "c3"}, to |-> {}],
     [maxConnections |-> 2, slots |-> {"c1", "c2"}, to |-> {"kA"}],
     [maxConnections |-> 2, slots |-> {"c1", "c3"}, to |-> {"kB"}]}

NoPeer ==
    [id |-> "none", closeStep |-> 0, closer |-> "none", sub |-> "none",
     writeCh |-> <<>>, pending |-> <<>>, wl |-> "none", tokens |-> 0,
     closeChCloses |-> 0, unsubscribes |-> 0, connCloses |-> 0]

\* no call under study, no read pump under study
NoCall == [fn |-> "none", arg |-> <<>>, done |-> FALSE, ret |-> FALSE]

NoPump == [pc |-> "none"]

\* a study that is not running: no shutdown of Serve, no message on its way,
\* no client
Idle == [pc |-> "none"]

VARIABLES
    call,       \* SpecHex: the call of a pure function under study
    hm,         \* SpecPump: the read pump of one peer under study
    hs,         \* SpecAuth: the handshake under study
    env,        \* the environment of this run, one of Scenarios
    serve,      \* Serve's own goroutine, its listener and the broker
    relay,      \* SpecRelay: one message on its way from sender to recipient
    cli,        \* SpecClient: the two pumps of one client connection
    authSem,    \* the number of auth buffers in the channel
    sock,       \* each connection: "new", "open", "closed"
    pc,         \* each connection's handler: its position in Serve/handleConn
    heldBuf,    \* the number of auth buffers the handler goroutine holds
    authErr,    \* what authenticate returned to the handler
    old,        \* handleConn's local: the peer LoadAndDelete returned
    peers,      \* the registry: PeerID -> peer
    peer        \* the Peer object created on each connection

serverVars == <<authSem, sock, pc, heldBuf, authErr, old, peers, peer>>

vars == <<call, hm, hs, env, serve, relay, cli, authSem, sock, pc, heldBuf, authErr, old, peers, peer>>

\* Serve up to its accept loop: the channel filled with MaxConnections buffers
ServeInit ==
    /\ authSem = env.maxConnections
    /\ sock = [c \in Conns |-> "new"]
    /\ pc = [c \in Conns |-> "none"]
    /\ heldBuf = [c \in Conns |-> 0]
    /\ authErr = [c \in Conns |-> "none"]
    /\ old = [c \in Conns |-> NoConn]
    /\ peers = [k \in Keys |-> NoConn]
    /\ peer = [c \in Conns |-> NoPeer]

(***************************************************************************)
(* SpecAuth: one handshake                                                 *)
(***************************************************************************)
AuthInit ==
    /\ hs \in {NewHandshake(k, ttl) : k \in Keys \cup {"zero"}, ttl \in TTLs}
    /\ env = [maxConnections |-> 1, slots |-> {}, to |-> {}]
    /\ call = NoCall
    /\ hm = NoPump
    /\ serve = Idle /\ relay = Idle /\ cli = Idle
    /\ ServeInit

\* the steps of authenticate, each on an input of the environment
SetDeadline ==
    /\ hs.pc = "start"
    /\ \E x \in AuthInputs(hs) : hs' = SetDeadlineStep(hs, x)
    /\ UNCHANGED <<call, hm, env, serve, relay, cli, serverVars>>

ReadHelloType ==
    /\ hs.pc = "helloType"
    /\ \E x \in AuthInputs(hs) : hs' = ReadHelloTypeStep(hs, x)
    /\ UNCHANGED <<call, hm, env, serve, relay, cli, serverVars>>

ReadPubKey ==
    /\ hs.pc = "pubKey"
    /\ \E x \in AuthInputs(hs) : hs' = ReadPubKeyStep(hs, x)
    /\ UNCHANGED <<call, hm, env, serve, relay, cli, serverVars>>

GenChallenge ==
    /\ hs.pc = "challenge"
    /\ \E x \in AuthInputs(hs) : hs' = GenChallengeStep(hs, x)
    /\ UNCHANGED <<call, hm, env, serve, relay, cli, serverVars>>

SendChallenge ==
    /\ hs.pc = "sendChallenge"
    /\ \E x \in AuthInputs(hs) : hs' = SendChallengeStep(hs, x)
    /\ UNCHANGED <<call, hm, env, serve, relay, cli, serverVars>>

ReadRespType ==
    /\ hs.pc = "respType"
    /\ \E x \in AuthInputs(hs) : hs' = ReadRespTypeStep(hs, x)
    /\ UNCHANGED <<call, hm, env, serve, relay, cli, serverVars>>

ReadSignature ==
    /\ hs.pc = "signature"
    /\ \E x \in AuthInputs(hs) : hs' = ReadSignatureStep(hs, x)
    /\ UNCHANGED <<call, hm, env, serve, relay, cli, serverVars>>

VerifySignature ==
    /\ hs.pc = "verify"
    /\ \E x \in AuthInputs(hs) : hs' = VerifyStep(hs, x)
    /\ UNCHANGED <<call, hm, env, serve, relay, cli, serverVars>>

CheckTimestamp ==
    /\ hs.pc = "checkTime"
    /\ \E x \in AuthInputs(hs) : hs' = CheckTimestampStep(hs, x)
    /\ UNCHANGED <<call, hm, env, serve, relay, cli, serverVars>>

SendResult ==
    /\ hs.pc = "sendResult"
    /\ \E x \in AuthInputs(hs) : hs' = SendResultStep(hs, x)
    /\ UNCHANGED <<call, hm, env, serve, relay, cli, serverVars>>

\* time passes: the deadline armed on the connection expires. From then on
\* no read or write on the connection blocks
DeadlineExpires ==
    /\ hs.deadline = "set"
    /\ ~hs.expired
    /\ hs' = [hs EXCEPT !.expired = TRUE]
    /\ UNCHANGED <<call, hm, env, serve, relay, cli, serverVars>>

AuthNext ==
    \/ SetDeadline \/ ReadHelloType \/ ReadPubKey \/ GenChallenge
    \/ SendChallenge \/ ReadRespType \/ ReadSignature \/ VerifySignature
    \/ CheckTimestamp \/ SendResult \/ DeadlineExpires

\* the steps of authenticate that wait for nothing but the processor
AuthLocalStep == SetDeadline \/ GenChallenge \/ VerifySignature \/ CheckTimestamp

\* the steps that read from or write to the connection: they wait for the
\* client, or for the deadline
AuthIOStep ==
    \/ ReadHelloType \/ ReadPubKey \/ SendChallenge
    \/ ReadRespType \/ ReadSignature \/ SendResult

\* the goroutine is scheduled, time passes, and a read or write whose
\* deadline has passed returns; nothing is assumed of the client
AuthFairness ==
    /\ WF_vars(AuthLocalStep)
    /\ WF_vars(DeadlineExpires)
    /\ WF_vars(hs.expired /\ AuthIOStep)

FairSpecAuth == AuthInit /\ [][AuthNext]_vars /\ AuthFairness

SpecAuth == AuthInit /\ [][AuthNext]_vars

(***************************************************************************)
(* Peer (peer.go)                                                          *)
(***************************************************************************)
\* newPeer: the peer with its subscription, queue and limiter
newPeer(id) ==
    [NoPeer EXCEPT !.id = id, !.sub = "active", !.tokens = RateLimitBurst]

\* Peer.Close entered by `who` while no Close has run: closeOnce lets it in
\* and it closes closeCh; Unsubscribe and CloseSocket are its next steps
StartClose(p, who) ==
    [p EXCEPT !.closeStep = 1, !.closer = who,
              !.closeChCloses = p.closeChCloses + 1]

\* a Close that closes the connection first and unsubscribes afterwards
CloseSocketBeforeUnsubscribe(c) ==
    /\ peer[c].closeStep = 1
    /\ peer' = [peer EXCEPT ![c].closeStep = 2, ![c].connCloses = peer[c].connCloses + 1]
    /\ sock' = [sock EXCEPT ![c] = "closed"]
    /\ UNCHANGED <<call, hm, hs, env, serve, relay, cli, authSem, pc, heldBuf, authErr, old, peers>>

\* Peer.Close, second step: subscriber.Unsubscribe()
Unsubscribe(c) ==
    /\ peer[c].closeStep = 1
    /\ peer' = [peer EXCEPT ![c].closeStep = 2, ![c].sub = "gone",
                            ![c].pending = <<>>,
                            ![c].unsubscribes = peer[c].unsubscribes + 1]
    /\ UNCHANGED <<call, hm, hs, env, serve, relay, cli, authSem, sock, pc, heldBuf, authErr, old, peers>>

\* Peer.Close, third step: conn.Close(); closeOnce is done after it
CloseSocket(c) ==
    /\ peer[c].closeStep = 2
    /\ peer' = [peer EXCEPT ![c].closeStep = 3,
                            ![c].connCloses = peer[c].connCloses + 1]
    /\ sock' = [sock EXCEPT ![c] = "closed"]
    /\ UNCHANGED <<call, hm, hs, env, serve, relay, cli, authSem, pc, heldBuf, authErr, old, peers>>

\* a delivery handler that enqueues whether or not the queue has room
DeliverOverflows(c) ==
    LET p == peer[c]
        taken == [p EXCEPT !.pending = Tail(p.pending)]
        enqueued == [taken EXCEPT !.writeCh = Append(p.writeCh, Head(p.pending))]
    IN  /\ p.sub = "active"
        /\ p.pending # <<>>
        /\ p.closer # "deliver"
        /\ peer' = [peer EXCEPT ![c] = enqueued]
        /\ UNCHANGED <<call, hm, hs, env, serve, relay, cli, authSem, sock, pc, heldBuf, authErr, old, peers>>

\* handleNATSMessage: the subscription's callback on its next delivery
Deliver(c) ==
    LET p == peer[c]
        closed == p.closeStep >= 1
        room == Len(p.writeCh) < WriteBufferSize
        taken == [p EXCEPT !.pending = Tail(p.pending)]
        enqueued == [taken EXCEPT !.writeCh = Append(p.writeCh, Head(p.pending))]
    IN  /\ p.sub = "active"
        /\ p.pending # <<>>
        /\ p.closer # "deliver"
        /\ \/ closed /\ peer' = [peer EXCEPT ![c] = taken]
           \/ room /\ peer' = [peer EXCEPT ![c] = enqueued]
           \/ /\ ~closed /\ ~room
              /\ peer' = [peer EXCEPT ![c] = StartClose(taken, "deliver")]
        /\ UNCHANGED <<call, hm, hs, env, serve, relay, cli, authSem, sock, pc, heldBuf, authErr, old, peers>>

\* a write pump that only receives from the queue and never looks at closeCh
WriteLoopIgnoresClose(c) ==
    LET p == peer[c]
        taken == [p EXCEPT !.writeCh = Tail(p.writeCh)]
    IN  /\ p.wl = "run"
        /\ p.writeCh # <<>>
        /\ \E res \in IF sock[c] = "open" THEN {Ok, WriteErr} ELSE {WriteErr} :
              peer' = [peer EXCEPT ![c] =
                  IF res = Ok THEN taken
                  ELSE IF p.closeStep = 0
                       THEN [StartClose(taken, "writeLoop") EXCEPT !.wl = "closing"]
                       ELSE [taken EXCEPT !.wl = "closing"]]
        /\ UNCHANGED <<call, hm, hs, env, serve, relay, cli, authSem, sock, pc, heldBuf, authErr, old, peers>>

\* writeLoop: one turn of its select
WriteLoop(c) ==
    LET p == peer[c]
        taken == [p EXCEPT !.writeCh = Tail(p.writeCh)]
    IN  /\ p.wl = "run"
        /\ \/ p.closeStep >= 1 /\ peer' = [peer EXCEPT ![c].wl = "done"]
           \/ /\ p.writeCh # <<>>
              /\ \E res \in IF sock[c] = "open" THEN {Ok, WriteErr} ELSE {WriteErr} :
                    peer' = [peer EXCEPT ![c] =
                        IF res = Ok THEN taken
                        ELSE IF p.closeStep = 0
                             THEN [StartClose(taken, "writeLoop") EXCEPT !.wl = "closing"]
                             ELSE [taken EXCEPT !.wl = "closing"]]
        /\ UNCHANGED <<call, hm, hs, env, serve, relay, cli, authSem, sock, pc, heldBuf, authErr, old, peers>>

\* writeLoop: p.Close() has returned, the pump returns
WriteLoopReturn(c) ==
    /\ peer[c].wl = "closing"
    /\ peer[c].closeStep = 3
    /\ peer' = [peer EXCEPT ![c].wl = "done"]
    /\ UNCHANGED <<call, hm, hs, env, serve, relay, cli, authSem, sock, pc, heldBuf, authErr, old, peers>>

(***************************************************************************)
(* Serve and handleConn (router.go)                                        *)
(***************************************************************************)
\* an accept loop that starts the handler whether or not it got a buffer
AcceptWithoutCredit(c) ==
    /\ c \in env.slots
    /\ sock[c] = "new"
    /\ authSem' = IF authSem > 0 THEN authSem - 1 ELSE authSem
    /\ heldBuf' = [heldBuf EXCEPT ![c] = IF authSem > 0 THEN 1 ELSE 0]
    /\ sock' = [sock EXCEPT ![c] = "open"]
    /\ pc' = [pc EXCEPT ![c] = "auth"]
    /\ UNCHANGED <<call, hm, hs, env, serve, relay, cli, authErr, old, peers, peer>>

\* the accept loop: Accept returns connection c, then the select on authSem
Accept(c) ==
    /\ c \in env.slots
    /\ sock[c] = "new"
    /\ IF authSem > 0
       THEN /\ authSem' = authSem - 1
            /\ heldBuf' = [heldBuf EXCEPT ![c] = 1]
            /\ sock' = [sock EXCEPT ![c] = "open"]
            /\ pc' = [pc EXCEPT ![c] = "auth"]
       ELSE /\ sock' = [sock EXCEPT ![c] = "closed"]
            /\ pc' = [pc EXCEPT ![c] = "refused"]
            /\ UNCHANGED <<authSem, heldBuf>>
    /\ UNCHANGED <<call, hm, hs, env, serve, relay, cli, authErr, old, peers, peer>>

\* a handler that goes on to create the peer whatever authenticate returned
AuthenticateIgnoresError(c) ==
    /\ pc[c] = "auth"
    /\ \E script \in ServeScripts(c), stale \in Keys \cup {"zero"} :
          LET h == authenticate(NewHandshake(stale, ChallengeTTL), script)
          IN  /\ authErr' = [authErr EXCEPT ![c] = h.err]
              /\ peer' = [peer EXCEPT ![c] = newPeer(KeyOf(c))]
              /\ pc' = [pc EXCEPT ![c] = "takeover"]
    /\ UNCHANGED <<call, hm, hs, env, serve, relay, cli, authSem, sock, heldBuf, old, peers>>

\* a handler that starts the write pump of the connection before the
\* handshake is over
AuthenticateBesideWritePump(c) ==
    /\ pc[c] = "auth"
    /\ peer' = [peer EXCEPT ![c] = [newPeer(KeyOf(c)) EXCEPT !.wl = "run"]]
    /\ UNCHANGED <<call, hm, hs, env, serve, relay, cli, authSem, sock, pc, heldBuf, authErr, old, peers>>

\* handleConn up to the registry: authenticate on the buffer the goroutine
\* was given (its pubKey region still holds what its last user left), the
\* PeerID copied out of the buffer, newPeer with its subscription
Authenticate(c) ==
    /\ pc[c] = "auth"
    /\ \E script \in ServeScripts(c), stale \in Keys \cup {"zero"}, subscribed \in {Ok, Fail} :
          LET h == authenticate(NewHandshake(stale, ChallengeTTL), script)
          IN  /\ authErr' = [authErr EXCEPT ![c] = h.err]
              /\ IF h.err = "nil" /\ subscribed = Ok
                 THEN /\ peer' = [peer EXCEPT ![c] = newPeer(h.bufPubKey)]
                      /\ pc' = [pc EXCEPT ![c] = "takeover"]
                 ELSE /\ pc' = [pc EXCEPT ![c] = "release"]
                      /\ UNCHANGED peer
    /\ UNCHANGED <<call, hm, hs, env, serve, relay, cli, authSem, sock, heldBuf, old, peers>>

\* handleConn: peers.LoadAndDelete(id)
LoadAndDelete(c) ==
    /\ pc[c] = "takeover"
    /\ old' = [old EXCEPT ![c] = peers[peer[c].id]]
    /\ peers' = [peers EXCEPT ![peer[c].id] = NoConn]
    /\ pc' = [pc EXCEPT ![c] = IF peers[peer[c].id] # NoConn THEN "closeOld" ELSE "store"]
    /\ UNCHANGED <<call, hm, hs, env, serve, relay, cli, authSem, sock, heldBuf, authErr, peer>>

\* handleConn: oldPeer.Close(), which returns once the peer is closed
CloseOld(c) ==
    /\ pc[c] = "closeOld"
    /\ \/ /\ peer[old[c]].closeStep = 0
          /\ peer' = [peer EXCEPT ![old[c]] = StartClose(peer[old[c]], "takeover")]
          /\ UNCHANGED <<pc, old>>
       \/ /\ peer[old[c]].closeStep = 3
          /\ pc' = [pc EXCEPT ![c] = "store"]
          /\ old' = [old EXCEPT ![c] = NoConn]
          /\ UNCHANGED peer
    /\ UNCHANGED <<call, hm, hs, env, serve, relay, cli, authSem, sock, heldBuf, authErr, peers>>

\* handleConn: peers.Store(id, peer), then go peer.writeLoop()
Store(c) ==
    /\ pc[c] = "store"
    /\ peers' = [peers EXCEPT ![peer[c].id] = c]
    /\ peer' = [peer EXCEPT ![c].wl = "run"]
    /\ pc' = [pc EXCEPT ![c] = "loop"]
    /\ UNCHANGED <<call, hm, hs, env, serve, relay, cli, authSem, sock, heldBuf, authErr, old>>

\* the read pump: the look at closeCh, then AllowMessage. limiter.Allow()
\* first adds the tokens earned since the last call (any number, up to the
\* burst), then takes one if there is one
Loop(c) ==
    /\ pc[c] = "loop"
    /\ IF peer[c].closeStep >= 1
       THEN pc' = [pc EXCEPT ![c] = "unregister"] /\ UNCHANGED peer
       ELSE \E tokens \in peer[c].tokens..RateLimitBurst :
               IF tokens = 0
               THEN /\ pc' = [pc EXCEPT ![c] = "unregister"]
                    /\ peer' = [peer EXCEPT ![c].tokens = 0]
               ELSE /\ peer' = [peer EXCEPT ![c].tokens = tokens - 1]
                    /\ pc' = [pc EXCEPT ![c] = "read"]
    /\ UNCHANGED <<call, hm, hs, env, serve, relay, cli, authSem, sock, heldBuf, authErr, old, peers>>

\* Publisher.Publish delivered by the broker: a copy of the payload waits in
\* every subscription on the recipient's subject (pending: the delivery the
\* broker has in flight to that subscription, one at a time)
Published(from, to) ==
    [d \in Conns |->
        IF peer[d].sub = "active" /\ peer[d].id = to
        THEN [peer[d] EXCEPT !.pending = Append(peer[d].pending, from)]
        ELSE peer[d]]

\* the read pump: handleMessage on a connection the client still holds
ReadMessage(c) ==
    /\ pc[c] = "read"
    /\ sock[c] = "open"
    /\ \E in \in ClientInputs(env.to), res \in {Ok, Fail} :
          IF in.kind = "msg" /\ res = Ok
          THEN /\ \A d \in Conns : peer[d].sub = "active" /\ peer[d].id = in.to
                      => peer[d].pending = <<>>
               /\ peer' = Published(peer[c].id, in.to)
               /\ pc' = [pc EXCEPT ![c] = "loop"]
          ELSE /\ pc' = [pc EXCEPT ![c] = "unregister"]
               /\ UNCHANGED peer
    /\ UNCHANGED <<call, hm, hs, env, serve, relay, cli, authSem, sock, heldBuf, authErr, old, peers>>

\* the read pump: the read fails because the connection was closed under it
ReadClosed(c) ==
    /\ pc[c] = "read"
    /\ sock[c] = "closed"
    /\ pc' = [pc EXCEPT ![c] = "unregister"]
    /\ UNCHANGED <<call, hm, hs, env, serve, relay, cli, authSem, sock, heldBuf, authErr, old, peers, peer>>

\* a deferred function that leaves the registry entry in place
UnregisterSkipped(c) ==
    /\ pc[c] = "unregister"
    /\ pc' = [pc EXCEPT ![c] = "closeSelf"]
    /\ UNCHANGED <<call, hm, hs, env, serve, relay, cli, authSem, sock, heldBuf, authErr, old, peers, peer>>

\* handleConn's deferred function: peers.Delete(id)
Unregister(c) ==
    /\ pc[c] = "unregister"
    /\ peers' = [peers EXCEPT ![peer[c].id] = NoConn]
    /\ pc' = [pc EXCEPT ![c] = "closeSelf"]
    /\ UNCHANGED <<call, hm, hs, env, serve, relay, cli, authSem, sock, heldBuf, authErr, old, peer>>

\* a Close without closeOnce: the handler runs the body of Close even when
\* another caller has run it
CloseSelfNoOnce(c) ==
    /\ pc[c] = "closeSelf"
    /\ \/ /\ peer[c].closeStep \in {0, 3}
          /\ peer[c].closer # "handler"
          /\ peer' = [peer EXCEPT ![c] = StartClose(peer[c], "handler")]
          /\ UNCHANGED pc
       \/ /\ peer[c].closeStep = 3
          /\ peer[c].closer = "handler"
          /\ pc' = [pc EXCEPT ![c] = "release"]
          /\ UNCHANGED peer
    /\ UNCHANGED <<call, hm, hs, env, serve, relay, cli, authSem, sock, heldBuf, authErr, old, peers>>

\* handleConn's deferred function: peer.Close()
CloseSelf(c) ==
    /\ pc[c] = "closeSelf"
    /\ \/ /\ peer[c].closeStep = 0
          /\ peer' = [peer EXCEPT ![c] = StartClose(peer[c], "handler")]
          /\ UNCHANGED pc
       \/ /\ peer[c].closeStep = 3
          /\ pc' = [pc EXCEPT ![c] = "release"]
          /\ UNCHANGED peer
    /\ UNCHANGED <<call, hm, hs, env, serve, relay, cli, authSem, sock, heldBuf, authErr, old, peers>>

\* a handler goroutine that ends without putting its buffer back
ReleaseKeepsBuffer(c) ==
    /\ pc[c] = "release"
    /\ sock' = [sock EXCEPT ![c] = "closed"]
    /\ heldBuf' = [heldBuf EXCEPT ![c] = 0]
    /\ authErr' = [authErr EXCEPT ![c] = "none"]
    /\ pc' = [pc EXCEPT ![c] = "done"]
    /\ UNCHANGED <<call, hm, hs, env, serve, relay, cli, authSem, old, peers, peer>>

\* handleConn's first deferred function, conn.Close(), and then the
\* goroutine's: authSem <- buf
Release(c) ==
    /\ pc[c] = "release"
    /\ sock' = [sock EXCEPT ![c] = "closed"]
    /\ authSem' = authSem + heldBuf[c]
    /\ heldBuf' = [heldBuf EXCEPT ![c] = 0]
    /\ authErr' = [authErr EXCEPT ![c] = "none"]
    /\ pc' = [pc EXCEPT ![c] = "done"]
    /\ UNCHANGED <<call, hm, hs, env, serve, relay, cli, old, peers, peer>>

\* a finished connection leaves; its slot stands for the next connection
Forget(c) ==
    /\ pc[c] \in {"done", "refused"}
    /\ peer[c].wl \in {"none", "done"}
    /\ peer[c].closeStep \in {0, 3}
    /\ \A d \in Conns : old[d] # c
    /\ \A k \in Keys : peers[k] # c
    /\ sock' = [sock EXCEPT ![c] = "new"]
    /\ pc' = [pc EXCEPT ![c] = "none"]
    /\ peer' = [peer EXCEPT ![c] = NoPeer]
    /\ UNCHANGED <<call, hm, hs, env, serve, relay, cli, authSem, heldBuf, authErr, old, peers>>

Init ==
    /\ hs = NewHandshake("zero", ChallengeTTL)
    /\ env \in Scenarios
    /\ call = NoCall
    /\ hm = NoPump
    /\ serve = Idle /\ relay = Idle /\ cli = Idle
    /\ ServeInit

Next ==
    \E c \in Conns :
        \/ Accept(c) \/ Authenticate(c) \/ LoadAndDelete(c)
        \/ CloseOld(c) \/ Store(c) \/ Loop(c) \/ ReadMessage(c) \/ ReadClosed(c)
        \/ Unregister(c) \/ CloseSelf(c) \/ Release(c)
        \/ Unsubscribe(c) \/ CloseSocket(c) \/ Deliver(c) \/ WriteLoop(c)
        \/ WriteLoopReturn(c) \/ Forget(c)

Spec == Init /\ [][Next]_vars

(***************************************************************************)
(* SpecShutdown: Serve from its accept loop to its return, with the        *)
(* connection handlers it started. serve.ctx is the context, listener the  *)
(* TLS listener, watcher the goroutine that waits for ctx.Done(), broker   *)
(* the broker connection, pc the position of Serve itself.                 *)
(***************************************************************************)
ShutdownInit ==
    /\ serve = [pc |-> "accept", ctx |-> "live", watcher |-> "waiting",
                listener |-> "open", broker |-> "open"]
    /\ env \in {e \in Scenarios : e.to = {"kA"}}
    /\ hs = NewHandshake("zero", ChallengeTTL)
    /\ call = NoCall
    /\ hm = NoPump
    /\ relay = Idle /\ cli = Idle
    /\ ServeInit

\* the caller cancels ctx
ShutdownSignal ==
    /\ serve.ctx = "live"
    /\ serve' = [serve EXCEPT !.ctx = "done"]
    /\ UNCHANGED <<call, hm, hs, env, relay, cli, serverVars>>

\* the shutdown goroutine: <-ctx.Done(), then tlsLis.Close()
CloseListener ==
    /\ serve.ctx = "done"
    /\ serve.watcher = "waiting"
    /\ serve' = [serve EXCEPT !.watcher = "done", !.listener = "closed"]
    /\ UNCHANGED <<call, hm, hs, env, relay, cli, serverVars>>

\* the accept loop: Accept fails on the closed listener and Serve returns nil
AcceptFails ==
    /\ serve.pc = "accept"
    /\ serve.listener = "closed"
    /\ serve' = [serve EXCEPT !.pc = "deferred"]
    /\ UNCHANGED <<call, hm, hs, env, relay, cli, serverVars>>

\* the deferred functions of Serve, last registered first: brk.Close(), then
\* tlsLis.Close()
ServeReturn ==
    /\ serve.pc = "deferred"
    /\ serve' = [serve EXCEPT !.pc = "returned", !.broker = "closed", !.listener = "closed"]
    /\ UNCHANGED <<call, hm, hs, env, relay, cli, serverVars>>

\* Serve and its handlers: connections are accepted while Serve is in its
\* loop and the listener is open; on a drained broker connection Subscribe
\* (newPeer) and Publish fail
ShutdownNext ==
    \/ ShutdownSignal
    \/ CloseListener
    \/ AcceptFails
    \/ ServeReturn
    \/ \E c \in Conns :
        \/ serve.pc = "accept" /\ serve.listener = "open" /\ Accept(c)
        \/ Authenticate(c) /\ (serve.broker = "closed" => pc'[c] = "release")
        \/ ReadMessage(c) /\ (serve.broker = "closed" => pc'[c] = "unregister")
        \/ LoadAndDelete(c) \/ CloseOld(c) \/ Store(c) \/ Loop(c) \/ ReadClosed(c)
        \/ Unregister(c) \/ CloseSelf(c) \/ Release(c)
        \/ Unsubscribe(c) \/ CloseSocket(c) \/ Deliver(c) \/ WriteLoop(c)
        \/ WriteLoopReturn(c) \/ Forget(c)

SpecShutdown == ShutdownInit /\ [][ShutdownNext]_vars

(***************************************************************************)
(* SpecClient: the client after Connect (pkg/client): runLoop with its     *)
(* read pump and write pump, the application on the send and receive       *)
(* channels, and the server end of the connection. In cli, send and recv   *)
(* are the two channels, inbound the frames the server has written and the *)
(* client has not read, closeStep the progress of the closeOnce body       *)
(* (0 not run, 1 closeCh closed, 2 connection closed), rl, wl and run the  *)
(* positions of readLoop, writeLoop and runLoop.                           *)
(***************************************************************************)
\* messages the application sends and frames the server writes, per run
MaxSends == 2
MaxInbound == 2
\* cfg.readBufSize, the capacity of the receive channel (scaled down)
ReadBufSize == 1

\* Connect after a successful handshake: recv is made, runLoop is started
\* and starts both pumps
ClientInit ==
    /\ cli = [pc |-> "runLoop", send |-> <<>>, sendClosed |-> FALSE, sends |-> 0,
              inbound |-> <<>>, frames |-> 0, serverClosed |-> FALSE,
              conn |-> "open", closeStep |-> 0, closer |-> "none",
              closeChCloses |-> 0, connCloses |-> 0,
              rl |-> "top", held |-> "none", wl |-> "select", run |-> "wait",
              recv |-> <<>>, recvCloses |-> 0, lateSends |-> 0, written |-> 0]
    /\ call = NoCall
    /\ hm = NoPump
    /\ hs = NewHandshake("zero", ChallengeTTL)
    /\ env = [maxConnections |-> 1, slots |-> {}, to |-> {}]
    /\ serve = Idle /\ relay = Idle
    /\ ServeInit

\* closeAll called by the pump `who` (the field of its position): closeOnce
\* lets the first caller run close(closeCh) and then conn.Close(); a second
\* caller returns once the first has finished
closeAll(who) ==
    \/ /\ cli.closeStep = 0
       /\ cli' = [cli EXCEPT !.closeStep = 1, !.closer = who,
                             !.closeChCloses = cli.closeChCloses + 1]
    \/ /\ cli.closeStep = 1
       /\ cli.closer = who
       /\ cli' = [cli EXCEPT !.closeStep = 2, !.conn = "closed",
                             !.connCloses = cli.connCloses + 1]
    \/ /\ cli.closeStep = 2
       /\ cli' = [cli EXCEPT ![who] = "done"]

\* readLoop: the look at closeCh, DecodeServerMessage on the buffered
\* reader, proto.Unmarshal, the select that hands the message to recv, and
\* the deferred closeAll
readLoop ==
    /\ cli.pc = "runLoop"
    /\ \/ /\ cli.rl = "top"
          /\ cli' = [cli EXCEPT !.rl = IF cli.closeStep >= 1 THEN "closeAll" ELSE "decode"]
       \/ /\ cli.rl = "decode"
          /\ \/ /\ cli.conn = "closed" \/ (cli.serverClosed /\ cli.inbound = <<>>)
                /\ cli' = [cli EXCEPT !.rl = "closeAll"]
             \/ /\ cli.inbound # <<>>
                /\ cli' = [cli EXCEPT
                              !.inbound = Tail(cli.inbound),
                              !.held = IF Head(cli.inbound) = "msg" THEN "msg" ELSE "none",
                              !.rl = CASE Head(cli.inbound) = "msg" -> "deliver"
                                       [] Head(cli.inbound) = "not a Message" -> "top"
                                       [] OTHER -> "closeAll"]
       \/ /\ cli.rl = "deliver"
          /\ \/ /\ Len(cli.recv) < ReadBufSize
                /\ cli' = [cli EXCEPT
                              !.recv = Append(cli.recv, cli.held),
                              !.held = "none",
                              !.lateSends = cli.lateSends + (IF cli.recvCloses > 0 THEN 1 ELSE 0),
                              !.rl = "top"]
             \/ /\ cli.closeStep >= 1
                /\ cli' = [cli EXCEPT !.held = "none", !.rl = "closeAll"]
       \/ /\ cli.rl = "closeAll"
          /\ closeAll("rl")
    /\ UNCHANGED <<call, hm, hs, env, serve, relay, serverVars>>

\* writeLoop: one turn of its select, with sendMessage (whose error is only
\* reported), and closeAll when the send channel is closed and empty
writeLoop ==
    /\ cli.pc = "runLoop"
    /\ \/ /\ cli.wl = "select"
          /\ \/ /\ cli.closeStep >= 1
                /\ cli' = [cli EXCEPT !.wl = "done"]
             \/ /\ cli.send # <<>>
                /\ cli' = [cli EXCEPT
                              !.send = Tail(cli.send),
                              !.written = cli.written + (IF cli.conn = "open" THEN 1 ELSE 0)]
             \/ /\ cli.send = <<>>
                /\ cli.sendClosed
                /\ cli' = [cli EXCEPT !.wl = "closeAll"]
       \/ /\ cli.wl = "closeAll"
          /\ closeAll("wl")
    /\ UNCHANGED <<call, hm, hs, env, serve, relay, serverVars>>

\* a runLoop that closes recv without waiting for its pumps
runLoopWithoutWait ==
    /\ cli.pc = "runLoop"
    /\ cli.run = "wait"
    /\ cli' = [cli EXCEPT !.run = "done", !.recvCloses = cli.recvCloses + 1]
    /\ UNCHANGED <<call, hm, hs, env, serve, relay, serverVars>>

\* runLoop: wg.Wait() returns when both pumps have returned, then close(recv)
runLoop ==
    /\ cli.pc = "runLoop"
    /\ cli.run = "wait"
    /\ cli.rl = "done"
    /\ cli.wl = "done"
    /\ cli' = [cli EXCEPT !.run = "done", !.recvCloses = cli.recvCloses + 1]
    /\ UNCHANGED <<call, hm, hs, env, serve, relay, serverVars>>

\* the application and the server: a message is put on send, send is
\* closed, a message is taken from recv; the server writes a frame (a
\* ServerMessage with an envelope, one whose data is not a Message, or one
\* DecodeServerMessage refuses) or closes its end
ClientEnvironment ==
    /\ cli.pc = "runLoop"
    /\ \/ /\ ~cli.sendClosed
          /\ cli.send = <<>>
          /\ cli.sends < MaxSends
          /\ cli' = [cli EXCEPT !.send = <<"out">>, !.sends = cli.sends + 1]
       \/ /\ ~cli.sendClosed
          /\ cli' = [cli EXCEPT !.sendClosed = TRUE]
       \/ /\ cli.recv # <<>>
          /\ cli' = [cli EXCEPT !.recv = Tail(cli.recv)]
       \/ /\ ~cli.serverClosed
          /\ cli.conn = "open"
          /\ cli.frames < MaxInbound
          /\ \E f \in {"msg", "not a Message", "too large"} :
                cli' = [cli EXCEPT !.inbound = Append(cli.inbound, f),
                                   !.frames = cli.frames + 1]
       \/ /\ ~cli.serverClosed
          /\ cli' = [cli EXCEPT !.serverClosed = TRUE]
    /\ UNCHANGED <<call, hm, hs, env, serve, relay, serverVars>>

ClientNext ==
    \/ readLoop
    \/ writeLoop
    \/ runLoop
    \/ ClientEnvironment

\* every goroutine of runLoop that can take a step is eventually scheduled
SpecClient ==
    /\ ClientInit
    /\ [][ClientNext]_vars
    /\ WF_vars(readLoop)
    /\ WF_vars(writeLoop)
    /\ WF_vars(runLoop)

(***************************************************************************)
(* FairSpec: the scheduler runs every goroutine that can take a step: the  *)
(* connection handler, the goroutine inside Peer.Close, the write pump.    *)
(* Nothing is assumed of the clients or of the broker's deliveries.        *)
(***************************************************************************)
HandlerStep(c) ==
    \/ LoadAndDelete(c) \/ CloseOld(c) \/ Store(c) \/ Loop(c) \/ ReadClosed(c)
    \/ Unregister(c) \/ CloseSelf(c) \/ Release(c)

CloseStep(c) == Unsubscribe(c) \/ CloseSocket(c)

WriteLoopStep(c) == WriteLoop(c) \/ WriteLoopReturn(c)

Fairness ==
    \A c \in Conns :
        WF_vars(HandlerStep(c)) /\ WF_vars(CloseStep(c)) /\ WF_vars(WriteLoopStep(c))

FairSpec == Init /\ [][Next]_vars /\ Fairness

(***************************************************************************)
(* Recipient validation (message.go). Strings are sequences of byte values: *)
(* '0'..'9' = 48..57, 'A'..'F' = 65..70, 'a'..'f' = 97..102.               *)
(***************************************************************************)
PublicKeySize == 32

\* a validator whose last range is one letter too wide
isValidHexPubKeyUpToG(s) ==
    /\ Len(s) = PublicKeySize * 2
    /\ \A i \in 1..Len(s) :
          LET c == s[i]
          IN  \/ (c >= 48 /\ c <= 57)
              \/ (c >= 97 /\ c <= 103)
              \/ (c >= 65 /\ c <= 71)

\* a validator that lets every recipient through
isValidHexPubKeyAny(s) == Len(s) >= 0

\* isValidHexPubKey: the length test, then the loop over the bytes
isValidHexPubKey(s) ==
    /\ Len(s) = PublicKeySize * 2
    /\ \A i \in 1..Len(s) :
          LET c == s[i]
          IN  \/ (c >= 48 /\ c <= 57)
              \/ (c >= 97 /\ c <= 102)
              \/ (c >= 65 /\ c <= 70)

\* the digits of hex.EncodeToString: "0123456789abcdef"
HexTable == <<48, 49, 50, 51, 52, 53, 54, 55, 56, 57, 97, 98, 99, 100, 101, 102>>

\* hex.EncodeToString: two digits per byte, the high nibble first
EncodeToString(src) ==
    [j \in 1..(2 * Len(src)) |->
        LET b == src[(j + 1) \div 2]
        IN  HexTable[(IF j % 2 = 1 THEN b \div 16 ELSE b % 16) + 1]]

\* the 32 bytes of the public keys of the model
KeyBytes(k) ==
    [i \in 1..PublicKeySize |->
        IF k = "kA" THEN (i * 37 + 11) % 256 ELSE (255 - 7 * i) % 256]

\* the same digits with the letters in upper case
UpperCase(s) == [i \in DOMAIN s |-> IF s[i] >= 97 THEN s[i] - 32 ELSE s[i]]

\* bytes a client may put into a recipient: the ends of the three ranges,
\* their neighbours, the wildcards and separators of broker subjects
TestChars ==
    {48, 57, 65, 70, 97, 102,
     47, 58, 64, 71, 96, 103,
     42, 62, 46, 32, 45, 10, 0, 255}

\* the recipients the validator is tried on: every length around 64 and
\* every test byte at the first, a middle and the last position
HexInputs ==
    LET valid == EncodeToString(KeyBytes("kA"))
    IN  {<<>>, valid, UpperCase(valid), EncodeToString(KeyBytes("kB")),
         SubSeq(valid, 1, 1), SubSeq(valid, 1, 63), Append(valid, 48), valid \o valid}
          \cup {[valid EXCEPT ![p] = c] : p \in {1, 32, 64}, c \in TestChars}
          \cup {[UpperCase(valid) EXCEPT ![p] = c] : p \in {2, 63}, c \in {42, 62, 46, 103}}

(***************************************************************************)
(* SpecHex: isValidHexPubKey called on each of HexInputs                   *)
(***************************************************************************)
HexInit ==
    /\ call \in {[fn |-> "isValidHexPubKey", arg |-> s, done |-> FALSE, ret |-> FALSE] :
                    s \in HexInputs}
    /\ hm = NoPump
    /\ hs = NewHandshake("zero", ChallengeTTL)
    /\ env = [maxConnections |-> 1, slots |-> {}, to |-> {}]
    /\ serve = Idle /\ relay = Idle /\ cli = Idle
    /\ ServeInit

HexCall ==
    /\ call.fn = "isValidHexPubKey"
    /\ ~call.done
    /\ call' = [call EXCEPT !.done = TRUE, !.ret = isValidHexPubKey(call.arg)]
    /\ UNCHANGED <<hm, hs, env, serve, relay, cli, serverVars>>

SpecHex == HexInit /\ [][HexCall]_vars

(***************************************************************************)
(* The read pump of one authenticated peer: handleConn from the deferred   *)
(* cleanup to the read loop (router.go) and handleMessage (message.go).    *)
(* The pump is the record hm; its fields keep the names of the locals.     *)
(***************************************************************************)
\* cfg.Limits.MaxMessageSize, also the size of a pooled message buffer
\* (scaled down; it leaves room for a MsgID of MaxMsgIDLen + 1 bytes)
MaxMessageSize == 330
\* protocol.MaxMsgIDLen
MaxMsgIDLen == 256
\* the calls of handleMessage the pump makes at most
MaxFrames == 2

minMessageSize == PublicKeySize * 2 + 2

\* binary.BigEndian.Uint32 and PutUint32
Uint32(b) == ((b[1] * 256 + b[2]) * 256 + b[3]) * 256 + b[4]
PutUint32(n) ==
    <<(n \div 16777216) % 256, (n \div 65536) % 256, (n \div 256) % 256, n % 256>>

\* binary.BigEndian.Uint16 and PutUint16
Uint16(b) == b[1] * 256 + b[2]
\* a PutUint16 that writes the low byte first
PutUint16LittleEndian(n) == <<n % 256, (n \div 256) % 256>>
PutUint16(n) == <<(n \div 256) % 256, n % 256>>

\* subjectForClient
subjectForClient(pubKeyHex) == [prefix |-> "goro.msg.", hex |-> pubKeyHex]

\* the Message record filled by handleMessage, as proto.Marshal serializes
\* it: a blob from which the five fields are read back
Marshal(from, to, id, payload, unixDateTime) ==
    [From |-> from, To |-> to, Id |-> id, Payload |-> payload,
     UnixDateTime |-> unixDateTime]

\* len(data) of the serialized Message in the protobuf wire format: a string
\* or bytes field that is not empty takes a tag byte, the varint of its
\* length and its bytes, the timestamp a tag byte and its varint
Size(data) ==
    LET VarintLen(n) == IF n < 128 THEN 1
                        ELSE IF n < 16384 THEN 2
                        ELSE IF n < 2097152 THEN 3
                        ELSE IF n < 268435456 THEN 4 ELSE 5
        Field(b) == IF Len(b) = 0 THEN 0 ELSE 1 + VarintLen(Len(b)) + Len(b)
    IN  Field(data.From) + Field(data.To) + Field(data.Id) + Field(data.Payload)
            + (IF data.UnixDateTime = 0 THEN 0 ELSE 1 + VarintLen(data.UnixDateTime))

\* the bytes after To and MsgIDLen in the bodies of the model: they differ
\* from position to position and from frame to frame
Filler(n, salt) == [i \in 1..n |-> (i * 7 + salt) % 256]

\* a frame body of total bytes: To, the MsgIDLen field, then the rest
Body(to, msgIDLen, total, salt) ==
    to \o PutUint16(msgIDLen) \o Filler(total - minMessageSize, salt)

\* the recipients a client writes into a frame
GoodTos == {EncodeToString(KeyBytes("kB")), UpperCase(EncodeToString(KeyBytes("kA")))}
BadTos ==
    LET valid == EncodeToString(KeyBytes("kB"))
    IN  {[valid EXCEPT ![1] = 42], [valid EXCEPT ![64] = 62],
         [valid EXCEPT ![17] = 46], [valid EXCEPT ![33] = 103]}

\* the values a client writes into the length prefix of frame number nth:
\* the first frame of a connection runs through every boundary, the later
\* ones through a few (the largest value is the largest the integers of the
\* model hold: the first byte of the prefix stays below 128)
TotalLens(nth) ==
    IF nth = 1
    THEN {0, minMessageSize - 1, minMessageSize, 100, minMessageSize + MaxMsgIDLen,
          minMessageSize + MaxMsgIDLen + 1, MaxMessageSize, MaxMessageSize + 1,
          65536 + minMessageSize, 2147483647}
    ELSE {minMessageSize - 1, minMessageSize, 100, MaxMessageSize + 1}

\* the values a client writes into the MsgIDLen field of a frame of total bytes
MsgIDLens(total, nth) ==
    IF nth = 1
    THEN {0, total - minMessageSize, total - minMessageSize + 1,
          MaxMsgIDLen, MaxMsgIDLen + 1, 65535}
    ELSE {total - minMessageSize, total - minMessageSize + 1}

\* the bodies of total bytes a client sends after the length prefix of
\* frame number nth
Bodies(total, nth) ==
    {Body(to, n, total, nth) : to \in IF nth = 1 THEN GoodTos ELSE {CHOOSE t \in GoodTos : TRUE},
                              n \in MsgIDLens(total, nth)}
        \cup {Body(to, 0, total, nth) : to \in IF nth = 1 THEN BadTos ELSE {CHOOSE t \in BadTos : TRUE}}

\* io.ReadFull into buf[:n]: the first n bytes of the pooled buffer are
\* overwritten, the rest keeps what an earlier message left there
ReadInto(buf, bytes) ==
    [i \in 1..Len(buf) |-> IF i <= Len(bytes) THEN bytes[i] ELSE buf[i]]

\* the pump when handleConn has stored the peer of key: registered, open,
\* the limiter full, nothing read
NewPump(key) ==
    [pc |-> "loop", key |-> key, pubKeyHex |-> EncodeToString(KeyBytes(key)),
     registered |-> TRUE, closed |-> FALSE,
     tokens |-> RateLimitBurst, granted |-> 0, calls |-> 0,
     totalLen |-> 0, bodyRead |-> 0, buf |-> [i \in 1..MaxMessageSize |-> 0],
     to |-> <<>>, msgID |-> <<>>, payload |-> <<>>, data |-> <<>>,
     accepted |-> <<>>, publishes |-> <<>>, err |-> "none", exit |-> "none"]

\* a return of the read loop: the deferred cleanup runs next
PumpReturn(h, why, err) == [h EXCEPT !.pc = "delete", !.exit = why, !.err = err]

\* a return of handleMessage with an error: the read loop returns
HandleError(h, err) == PumpReturn(h, "handle message", err)

\* the environment of one step of the pump
PumpEnv == UNCHANGED <<call, hs, env, serve, relay, cli, serverVars>>

\* another goroutine closes the peer (the write pump, a full queue, a newer
\* connection of the same key): closeCh is closed and so is the connection
PeerClosed ==
    /\ hm.pc \notin {"none", "close", "done"}
    /\ ~hm.closed
    /\ hm' = [hm EXCEPT !.closed = TRUE]
    /\ PumpEnv

\* a read loop that reads without asking the limiter
AllowMessageUnlimited ==
    /\ hm.pc = "loop"
    /\ hm.closed \/ hm.calls < MaxFrames
    /\ IF hm.closed
       THEN hm' = PumpReturn(hm, "closed", "none")
       ELSE hm' = [hm EXCEPT !.pc = "readLength"]
    /\ PumpEnv

\* the top of the read loop: the look at closeCh, then AllowMessage.
\* limiter.Allow() first adds the tokens earned since the last call (any
\* number, up to the burst), then takes one if there is one
AllowMessage ==
    /\ hm.pc = "loop"
    /\ hm.closed \/ hm.calls < MaxFrames
    /\ IF hm.closed
       THEN hm' = PumpReturn(hm, "closed", "none")
       ELSE \E tokens \in hm.tokens..RateLimitBurst :
               IF tokens = 0
               THEN hm' = PumpReturn([hm EXCEPT !.tokens = 0], "rate limit exceeded", "none")
               ELSE hm' = [hm EXCEPT !.tokens = tokens - 1, !.granted = @ + 1,
                                     !.pc = "readLength"]
    /\ PumpEnv

\* handleMessage, step 1: the four bytes of the length and the two tests of it
ReadLength ==
    /\ hm.pc = "readLength"
    /\ LET h == [hm EXCEPT !.calls = @ + 1, !.bodyRead = 0]
       IN  \/ hm' = HandleError(h, "read length")
           \/ /\ ~hm.closed
              /\ \E n \in TotalLens(h.calls) :
                    LET buf == ReadInto(h.buf, PutUint32(n))
                        totalLen == Uint32(SubSeq(buf, 1, 4))
                        r == [h EXCEPT !.buf = buf]
                    IN  hm' = IF totalLen > MaxMessageSize
                              THEN HandleError(r, "message too large")
                              ELSE IF totalLen < minMessageSize
                              THEN HandleError(r, "message too small")
                              ELSE IF totalLen > Len(buf)
                              THEN HandleError(r, "message too large for buffer")
                              ELSE [r EXCEPT !.pc = "readBody", !.totalLen = totalLen]
    /\ PumpEnv

\* a parse that turns away a MsgID of exactly MaxMsgIDLen bytes
ParseShortMsgID(h, body) ==
    LET totalLen == h.totalLen
        buf == ReadInto(h.buf, body)
        to == SubSeq(buf, 1, PublicKeySize * 2)
        msgIDLen == Uint16(SubSeq(buf, PublicKeySize * 2 + 1, PublicKeySize * 2 + 2))
        msgIDStart == PublicKeySize * 2 + 2
        msgIDEnd == msgIDStart + msgIDLen
        b == [h EXCEPT !.buf = buf, !.bodyRead = totalLen]
    IN  IF ~isValidHexPubKey(to) THEN HandleError(b, "invalid recipient pubkey format")
        ELSE IF msgIDLen >= MaxMsgIDLen THEN HandleError(b, "msgID too long")
        ELSE IF msgIDEnd > totalLen THEN HandleError(b, "invalid message structure")
        ELSE [b EXCEPT !.pc = "marshal", !.to = to,
                       !.msgID = SubSeq(buf, msgIDStart + 1, msgIDEnd),
                       !.payload = SubSeq(buf, msgIDEnd + 1, totalLen),
                       !.accepted = Append(@, body)]

\* what handleMessage does with a body it has read into the buffer: the
\* header is parsed and the recipient validated
Parse(h, body) ==
    LET totalLen == h.totalLen
        buf == ReadInto(h.buf, body)
        to == SubSeq(buf, 1, PublicKeySize * 2)
        msgIDLen == Uint16(SubSeq(buf, PublicKeySize * 2 + 1, PublicKeySize * 2 + 2))
        msgIDStart == PublicKeySize * 2 + 2
        msgIDEnd == msgIDStart + msgIDLen
        b == [h EXCEPT !.buf = buf, !.bodyRead = totalLen]
    IN  IF ~isValidHexPubKey(to) THEN HandleError(b, "invalid recipient pubkey format")
        ELSE IF msgIDLen > MaxMsgIDLen THEN HandleError(b, "msgID too long")
        ELSE IF msgIDEnd > totalLen THEN HandleError(b, "invalid message structure")
        ELSE [b EXCEPT !.pc = "marshal", !.to = to,
                       !.msgID = SubSeq(buf, msgIDStart + 1, msgIDEnd),
                       !.payload = SubSeq(buf, msgIDEnd + 1, totalLen),
                       !.accepted = Append(@, body)]

\* handleMessage, steps 2-4: the body is read in full or the read fails after
\* some of its bytes
ReadBody ==
    /\ hm.pc = "readBody"
    /\ \/ \E got \in {0, hm.totalLen - 1} :
             hm' = HandleError([hm EXCEPT !.bodyRead = got], "read message body")
       \/ /\ ~hm.closed
          /\ \E body \in Bodies(hm.totalLen, hm.calls) : hm' = Parse(hm, body)
    /\ PumpEnv

\* an envelope whose From is taken from the frame
MarshalMessageFromFrame ==
    /\ hm.pc = "marshal"
    /\ \E now \in {BaseTime, BaseTime + 1}, res \in {Ok, Fail} :
          hm' = IF res = Fail THEN HandleError(hm, "marshal message")
                ELSE [hm EXCEPT !.pc = "publish",
                                !.data = Marshal(hm.to, hm.to, hm.msgID, hm.payload, now)]
    /\ PumpEnv

\* handleMessage, steps 5-6: the Message is filled and serialized
MarshalMessage ==
    /\ hm.pc = "marshal"
    /\ \E now \in {BaseTime, BaseTime + 1}, res \in {Ok, Fail} :
          hm' = IF res = Fail THEN HandleError(hm, "marshal message")
                ELSE [hm EXCEPT !.pc = "publish",
                                !.data = Marshal(hm.pubKeyHex, hm.to, hm.msgID, hm.payload, now)]
    /\ PumpEnv

\* a Publish whose error is logged and the pump goes on
PublishMessageKeepsGoing ==
    /\ hm.pc = "publish"
    /\ \E res \in {Ok, Fail} :
          hm' = [hm EXCEPT !.pc = "loop",
                           !.err = IF res = Fail THEN "publish to NATS" ELSE @,
                           !.publishes = Append(@, [subject |-> subjectForClient(hm.to),
                                                    data |-> hm.data, res |-> res])]
    /\ PumpEnv

\* a Publish that is made twice
PublishMessageTwice ==
    /\ hm.pc = "publish"
    /\ LET p == [subject |-> subjectForClient(hm.to), data |-> hm.data, res |-> Ok]
       IN  hm' = [hm EXCEPT !.pc = "loop", !.publishes = @ \o <<p, p>>]
    /\ PumpEnv

\* handleMessage, step 7: Publisher.Publish on the subject of the recipient;
\* its error is returned
PublishMessage ==
    /\ hm.pc = "publish"
    /\ \E res \in {Ok, Fail} :
          LET h == [hm EXCEPT !.publishes = Append(@, [subject |-> subjectForClient(hm.to),
                                                       data |-> hm.data, res |-> res])]
          IN  hm' = IF res = Fail THEN HandleError(h, "publish to NATS")
                    ELSE [h EXCEPT !.pc = "loop"]
    /\ PumpEnv

\* the deferred function of handleConn: peers.Delete
PumpDelete ==
    /\ hm.pc = "delete"
    /\ hm' = [hm EXCEPT !.pc = "close", !.registered = FALSE]
    /\ PumpEnv

\* the deferred function of handleConn: peer.Close
PumpClose ==
    /\ hm.pc = "close"
    /\ hm' = [hm EXCEPT !.pc = "done", !.closed = TRUE]
    /\ PumpEnv

PumpInit ==
    /\ hm \in {NewPump(k) : k \in Keys}
    /\ call = NoCall
    /\ hs = NewHandshake("zero", ChallengeTTL)
    /\ env = [maxConnections |-> 1, slots |-> {}, to |-> {}]
    /\ serve = Idle /\ relay = Idle /\ cli = Idle
    /\ ServeInit

PumpNext ==
    \/ PeerClosed
    \/ AllowMessage
    \/ ReadLength
    \/ ReadBody
    \/ MarshalMessage
    \/ PublishMessage
    \/ PumpDelete
    \/ PumpClose

SpecPump == PumpInit /\ [][PumpNext]_vars

(***************************************************************************)
(* The wire protocol (package protocol): the six frames, their Encode      *)
(* methods and decoders, and the signing input. A reader is the sequence   *)
(* of bytes still unread; a decoder returns its error, its frame and the   *)
(* bytes it left unread.                                                   *)
(***************************************************************************)
ChallengeSize == 32
TimestampSize == 8
ServerIDSize == 32
SignatureSize == 64
ChannelBindingSize == 32
\* protocol.MaxMessageSize, the limit of the codecs: 65536 in the code, the
\* default of cfg.Limits.MaxMessageSize; scaled down with it, large enough for
\* a frame with the longest MsgID and a payload
ProtocolMaxMessageSize == 330
MaxErrorMsgLen == 1024

\* binary.BigEndian.PutUint64, on the values the model's integers hold (the
\* four high bytes are zero)
PutUint64(n) == <<0, 0, 0, 0>> \o PutUint32(n)

\* the bytes of the string ProtocolVersion, "goro-auth-v1"
ProtocolVersionBytes == <<103, 111, 114, 111, 45, 97, 117, 116, 104, 45, 118, 49>>

\* a signing input without the protocol version in front
BuildSignedDataBytesUnversioned(buf, challenge, timestamp, serverID, clientPubKey, channelBinding) ==
    LET \* copy(buf[offset:], src): the buffer after the copy
        CopyAt(b, offset, src) ==
            [i \in 1..Len(b) |->
                IF i > offset /\ i <= offset + Len(src) THEN src[i - offset] ELSE b[i]]
        b1 == CopyAt(buf, 0, challenge)
        o1 == ChallengeSize
        b2 == CopyAt(b1, o1, PutUint64(timestamp))
        o2 == o1 + TimestampSize
        b3 == CopyAt(b2, o2, serverID)
        o3 == o2 + Len(serverID)
        b4 == CopyAt(b3, o3, clientPubKey)
        o4 == o3 + Len(clientPubKey)
        b5 == CopyAt(b4, o4, channelBinding)
        o5 == o4 + Len(channelBinding)
    IN  SubSeq(b5, 1, o5)

\* protocol.BuildSignedDataTo on bytes: the fields are copied into buf one
\* after the other and the written part of buf is returned
BuildSignedDataBytes(buf, challenge, timestamp, serverID, clientPubKey, channelBinding) ==
    LET \* copy(buf[offset:], src): the buffer after the copy
        CopyAt(b, offset, src) ==
            [i \in 1..Len(b) |->
                IF i > offset /\ i <= offset + Len(src) THEN src[i - offset] ELSE b[i]]
        b0 == CopyAt(buf, 0, ProtocolVersionBytes)
        o0 == Len(ProtocolVersionBytes)
        b1 == CopyAt(b0, o0, challenge)
        o1 == o0 + Len(challenge)
        b2 == CopyAt(b1, o1, PutUint64(timestamp))
        o2 == o1 + TimestampSize
        b3 == CopyAt(b2, o2, serverID)
        o3 == o2 + Len(serverID)
        b4 == CopyAt(b3, o3, clientPubKey)
        o4 == o3 + Len(clientPubKey)
        b5 == CopyAt(b4, o4, channelBinding)
        o5 == o4 + Len(channelBinding)
    IN  SubSeq(b5, 1, o5)

\* protocol.BuildSignedData: BuildSignedDataTo on a fresh buffer of
\* SignedDataSize bytes
BuildSignedData(challenge, timestamp, serverID, clientPubKey, channelBinding) ==
    BuildSignedDataBytes([i \in 1..(Len(ProtocolVersionBytes) + ChallengeSize + TimestampSize
                                      + ServerIDSize + PublicKeySize + ChannelBindingSize) |-> 0],
                         challenge, timestamp, serverID, clientPubKey, channelBinding)

\* an Encode that writes whatever it is given
EncodeUnchecked(m) ==
    LET Encoded(err, out) == [err |-> err, out |-> out]
    IN  CASE m.kind = "ClientMessage" ->
                Encoded("none", PutUint32(PublicKeySize * 2 + 2 + Len(m.MsgID) + Len(m.Payload))
                                    \o m.To \o PutUint16(Len(m.MsgID)) \o m.MsgID \o m.Payload)
          [] m.kind = "ServerMessage" -> Encoded("none", PutUint32(Len(m.Data)) \o m.Data)
          [] OTHER -> Encoded("none", <<>>)

\* the Encode method of each frame: its error and the bytes it wrote
Encode(m) ==
    LET \* the result of an Encode: its error and the bytes it wrote
        Encoded(err, out) == [err |-> err, out |-> out]
    IN  CASE m.kind = "ClientHello" -> Encoded("none", <<TypeClientHello>> \o m.PubKey)
          [] m.kind = "ServerChallenge" ->
                Encoded("none", <<TypeServerChallenge>> \o m.Challenge
                                    \o PutUint64(m.Timestamp) \o m.ServerID)
          [] m.kind = "ClientResponse" -> Encoded("none", <<TypeClientResponse>> \o m.Signature)
          [] m.kind = "AuthResult" ->
                IF m.Status # AuthStatusOK
                THEN LET errBytes == IF Len(m.ErrorMsg) > MaxErrorMsgLen
                                     THEN SubSeq(m.ErrorMsg, 1, MaxErrorMsgLen)
                                     ELSE m.ErrorMsg
                     IN  Encoded("none", <<TypeAuthResult, m.Status>>
                                            \o PutUint16(Len(errBytes)) \o errBytes)
                ELSE Encoded("none", <<TypeAuthResult, m.Status>>)
          [] m.kind = "ClientMessage" ->
                LET totalLen == PublicKeySize * 2 + 2 + Len(m.MsgID) + Len(m.Payload)
                IN  IF Len(m.To) # PublicKeySize * 2 THEN Encoded("invalid to length", <<>>)
                    ELSE IF Len(m.MsgID) > MaxMsgIDLen THEN Encoded("msg_id too long", <<>>)
                    ELSE IF totalLen > ProtocolMaxMessageSize
                         THEN Encoded("message too large", <<>>)
                    ELSE Encoded("none", PutUint32(totalLen) \o m.To
                                            \o PutUint16(Len(m.MsgID)) \o m.MsgID \o m.Payload)
          [] m.kind = "ServerMessage" ->
                IF Len(m.Data) > ProtocolMaxMessageSize
                THEN Encoded("message too large", <<>>)
                ELSE Encoded("none", PutUint32(Len(m.Data)) \o m.Data)


\* what a decoder returns with an error
NoFrame == [kind |-> "none"]

\* the decoders, by the kind of frame expected (the type tag of a handshake
\* frame has been read before): each returns its error, its frame and the
\* bytes of the reader it has not read
Decode(kind, r) ==
    LET Decoded(err, m, rest) == [err |-> err, m |-> m, rest |-> rest]
        \* the reader after n bytes were read from it
        Skip(s, n) == SubSeq(s, n + 1, Len(s))
        \* binary.BigEndian.Uint64
        Uint64(b) ==
            ((((((b[1] * 256 + b[2]) * 256 + b[3]) * 256 + b[4]) * 256 + b[5]) * 256
                + b[6]) * 256 + b[7]) * 256 + b[8]
    IN  CASE kind = "ClientHello" ->
                \* DecodeClientHello
                IF Len(r) < PublicKeySize THEN Decoded("read pubkey", NoFrame, <<>>)
                ELSE Decoded("none",
                             [kind |-> kind, PubKey |-> SubSeq(r, 1, PublicKeySize)],
                             Skip(r, PublicKeySize))
          [] kind = "ServerChallenge" ->
                \* DecodeServerChallenge
                IF Len(r) < ChallengeSize THEN Decoded("read challenge", NoFrame, <<>>)
                ELSE IF Len(r) < ChallengeSize + TimestampSize
                     THEN Decoded("read timestamp", NoFrame, <<>>)
                ELSE IF Len(r) < ChallengeSize + TimestampSize + ServerIDSize
                     THEN Decoded("read server_id", NoFrame, <<>>)
                ELSE Decoded("none",
                             [kind |-> kind,
                              Challenge |-> SubSeq(r, 1, ChallengeSize),
                              Timestamp |-> Uint64(SubSeq(r, ChallengeSize + 1,
                                                          ChallengeSize + TimestampSize)),
                              ServerID |-> SubSeq(r, ChallengeSize + TimestampSize + 1,
                                                  ChallengeSize + TimestampSize + ServerIDSize)],
                             Skip(r, ChallengeSize + TimestampSize + ServerIDSize))
          [] kind = "ClientResponse" ->
                \* DecodeClientResponse
                IF Len(r) < SignatureSize THEN Decoded("read signature", NoFrame, <<>>)
                ELSE Decoded("none",
                             [kind |-> kind, Signature |-> SubSeq(r, 1, SignatureSize)],
                             Skip(r, SignatureSize))
          [] kind = "AuthResult" ->
                \* DecodeAuthResult
                IF Len(r) < 1 THEN Decoded("read status", NoFrame, <<>>)
                ELSE IF r[1] = AuthStatusOK
                     THEN Decoded("none", [kind |-> kind, Status |-> r[1], ErrorMsg |-> <<>>],
                                  Skip(r, 1))
                ELSE IF Len(r) < 3 THEN Decoded("read error len", NoFrame, <<>>)
                ELSE LET errLen == Uint16(SubSeq(r, 2, 3))
                     IN  IF errLen > MaxErrorMsgLen
                         THEN Decoded("error message too long", NoFrame, Skip(r, 3))
                         ELSE IF Len(r) < 3 + errLen
                              THEN Decoded("read error msg", NoFrame, <<>>)
                         ELSE Decoded("none",
                                      [kind |-> kind, Status |-> r[1],
                                       ErrorMsg |-> SubSeq(r, 4, 3 + errLen)],
                                      Skip(r, 3 + errLen))
          [] kind = "ClientMessage" ->
                \* DecodeClientMessage
                IF Len(r) < 4 THEN Decoded("read total len", NoFrame, <<>>)
                ELSE LET totalLen == Uint32(SubSeq(r, 1, 4))
                         data == SubSeq(r, 5, 4 + totalLen)
                         msgIDLen == Uint16(SubSeq(data, PublicKeySize * 2 + 1,
                                                   PublicKeySize * 2 + 2))
                         tail == Skip(data, PublicKeySize * 2 + 2)
                     IN  IF totalLen > ProtocolMaxMessageSize
                         THEN Decoded("message too large", NoFrame, Skip(r, 4))
                         ELSE IF Len(r) < 4 + totalLen
                              THEN Decoded("read message data", NoFrame, <<>>)
                         ELSE IF Len(data) < PublicKeySize * 2 + 2
                              THEN Decoded("message too short", NoFrame, Skip(r, 4 + totalLen))
                         ELSE IF msgIDLen > Len(tail)
                              THEN Decoded("invalid msg_id length", NoFrame,
                                           Skip(r, 4 + totalLen))
                         ELSE Decoded("none",
                                      [kind |-> kind,
                                       To |-> SubSeq(data, 1, PublicKeySize * 2),
                                       MsgID |-> SubSeq(tail, 1, msgIDLen),
                                       Payload |-> Skip(tail, msgIDLen)],
                                      Skip(r, 4 + totalLen))
          [] kind = "ServerMessage" ->
                \* DecodeServerMessage
                IF Len(r) < 4 THEN Decoded("read total len", NoFrame, <<>>)
                ELSE LET totalLen == Uint32(SubSeq(r, 1, 4))
                     IN  IF totalLen > ProtocolMaxMessageSize
                         THEN Decoded("message too large", NoFrame, Skip(r, 4))
                         ELSE IF Len(r) < 4 + totalLen THEN Decoded("read data", NoFrame, <<>>)
                         ELSE Decoded("none",
                                      [kind |-> kind, Data |-> SubSeq(r, 5, 4 + totalLen)],
                                      Skip(r, 4 + totalLen))

\* Serve: the configured server_id as the ServerIDSize bytes written into the
\* auth buffers, or the error Serve returns
ServerIDBuf(configured) ==
    IF Len(configured) > ServerIDSize
    THEN [err |-> "server_id too long", serverID |-> <<>>]
    ELSE [err |-> "none",
          serverID |-> [i \in 1..ServerIDSize |->
                            IF i <= Len(configured) THEN configured[i] ELSE 0]]


(***************************************************************************)
(* SpecCodec: the codecs, the signing input and the server_id of Serve,    *)
(* each called once on each of its inputs                                  *)
(***************************************************************************)
\* every call of the study: an Encode on each frame, a decoder on each reader,
\* both builders of the signing input on each set of fields, Serve on each
\* server_id
CodecInit ==
    LET
        \* the frames handed to Encode: every frame with its fields at their
        \* smallest and largest sizes, and the frames Encode must refuse
        CodecFrames ==
            {[kind |-> "ClientHello", PubKey |-> Filler(PublicKeySize, s)] : s \in {0, 1, 255}}
            \cup {[kind |-> "ServerChallenge", Challenge |-> Filler(ChallengeSize, s),
                   Timestamp |-> t, ServerID |-> Filler(ServerIDSize, s + 1)] :
                      s \in {0, 3}, t \in {0, 1, 256, BaseTime, 2147483647}}
            \cup {[kind |-> "ClientResponse", Signature |-> Filler(SignatureSize, s)] : s \in {0, 1, 255}}
            \cup {[kind |-> "AuthResult", Status |-> st, ErrorMsg |-> Filler(n, 5)] :
                      st \in {AuthStatusOK, AuthStatusInvalidSig, 3, 255},
                      n \in {0, 1, MaxErrorMsgLen, MaxErrorMsgLen + 1}}
            \cup {[kind |-> "ClientMessage", To |-> Filler(n, 48), MsgID |-> Filler(i, 7),
                   Payload |-> Filler(p, 11)] :
                      n \in {PublicKeySize * 2}, i \in {0, 1, MaxMsgIDLen}, p \in {0, 1, 40}}
            \cup {[kind |-> "ClientMessage", To |-> Filler(PublicKeySize * 2, 48), MsgID |-> Filler(i, 7),
                   Payload |-> Filler(ProtocolMaxMessageSize - PublicKeySize * 2 - 2 - i + over, 11)] :
                      i \in {0, MaxMsgIDLen}, over \in {0, 1}}
            \cup {[kind |-> "ClientMessage", To |-> Filler(n, 48), MsgID |-> Filler(i, 7),
                   Payload |-> Filler(2, 11)] :
                      n \in {0, PublicKeySize * 2 - 1, PublicKeySize * 2 + 1},
                      i \in {0, MaxMsgIDLen + 1}}
            \cup {[kind |-> "ClientMessage", To |-> Filler(PublicKeySize * 2, 48),
                   MsgID |-> Filler(MaxMsgIDLen + 1, 7), Payload |-> Filler(p, 11)] : p \in {0, 2}}
            \cup {[kind |-> "ServerMessage", Data |-> Filler(n, 13)] :
                      n \in {0, 1, 200, ProtocolMaxMessageSize, ProtocolMaxMessageSize + 1}}
        \* what a reader holds after the bytes of a frame
        Trailers == {<<>>, <<7, 9>>}
        \* the readers handed to a decoder directly: short inputs, length fields
        \* over their maximum or beyond the data, and inputs just long enough
        CodecReaders ==
            {[kind |-> "ClientHello", r |-> Filler(n, 1)] : n \in {0, PublicKeySize - 1, PublicKeySize}}
            \cup {[kind |-> "ServerChallenge", r |-> Filler(n, 2)] :
                      n \in {0, ChallengeSize - 1, ChallengeSize, ChallengeSize + TimestampSize - 1,
                             ChallengeSize + TimestampSize,
                             ChallengeSize + TimestampSize + ServerIDSize - 1}}
            \cup {[kind |-> "ClientResponse", r |-> Filler(n, 3)] :
                      n \in {0, SignatureSize - 1, SignatureSize}}
            \cup {[kind |-> "AuthResult", r |-> r] :
                      r \in {<<>>, <<AuthStatusInvalidSig>>, <<AuthStatusInvalidSig, 0>>,
                             <<AuthStatusInvalidSig, 0, 5, 1, 2>>}}
            \cup {[kind |-> "AuthResult",
                   r |-> <<AuthStatusInvalidSig>> \o PutUint16(n) \o Filler(have, 5)] :
                      n \in {MaxErrorMsgLen, MaxErrorMsgLen + 1, 65535},
                      have \in {0, MaxErrorMsgLen - 1, MaxErrorMsgLen + 1}}
            \cup {[kind |-> "ClientMessage", r |-> Filler(n, 4)] : n \in {0, 3}}
            \cup {[kind |-> "ClientMessage", r |-> PutUint32(total) \o Filler(have, 48)] :
                      total \in {0, PublicKeySize * 2 + 1, 100, ProtocolMaxMessageSize + 1, 2147483647},
                      have \in {0, PublicKeySize * 2 + 1, 99}}
            \cup {[kind |-> "ClientMessage",
                   r |-> PutUint32(PublicKeySize * 2 + 2 + have) \o Filler(PublicKeySize * 2, 48)
                            \o PutUint16(i) \o Filler(have, 7)] :
                      i \in {0, 1, MaxMsgIDLen, MaxMsgIDLen + 1, 65535},
                      have \in {0, MaxMsgIDLen, MaxMsgIDLen + 1, 300}}
            \cup {[kind |-> "ClientMessage",
                   r |-> PutUint32(ProtocolMaxMessageSize + 1) \o Filler(ProtocolMaxMessageSize + 1, 48)]}
            \cup {[kind |-> "ServerMessage", r |-> Filler(n, 0)] : n \in {0, 3}}
            \cup {[kind |-> "ServerMessage", r |-> PutUint32(total) \o Filler(have, 13)] :
                      total \in {0, 10, ProtocolMaxMessageSize + 1, 2147483647},
                      have \in {0, 9, 10}}
            \cup {[kind |-> "ServerMessage",
                   r |-> PutUint32(ProtocolMaxMessageSize + 1) \o Filler(ProtocolMaxMessageSize + 1, 13)]}
        \* the inputs of a signing input: the fixed-size fields, a timestamp, and
        \* what the scratch region of the auth buffer held before
        SignedDataInputs ==
            {[challenge |-> Filler(ChallengeSize, s), timestamp |-> t,
              serverID |-> Filler(ServerIDSize, s + 1), clientPubKey |-> Filler(PublicKeySize, s + 2),
              channelBinding |-> Filler(ChannelBindingSize, s + 3), stale |-> stale] :
                s \in {0, 100}, t \in {0, 1, 256, BaseTime, 2147483647}, stale \in {0, 99}}
        \* the server_id strings of a configuration
        ServerIDs == {Filler(n, 65) : n \in {0, 1, 6, ServerIDSize - 1, ServerIDSize, ServerIDSize + 1, 40}}
    IN
        /\ call \in {[fn |-> "Encode", arg |-> [m |-> m, trailer |-> t], done |-> FALSE, ret |-> FALSE] :
                        m \in CodecFrames, t \in Trailers}
                \cup {[fn |-> "Decode", arg |-> [kind |-> i.kind, r |-> i.r, sent |-> NoFrame, trailer |-> <<>>],
                       done |-> FALSE, ret |-> FALSE] : i \in CodecReaders}
                \cup {[fn |-> "BuildSignedData", arg |-> i, done |-> FALSE, ret |-> FALSE] :
                        i \in SignedDataInputs}
                \cup {[fn |-> "Serve", arg |-> s, done |-> FALSE, ret |-> FALSE] : s \in ServerIDs}
        /\ hm = NoPump
        /\ hs = NewHandshake("zero", ChallengeTTL)
        /\ env = [maxConnections |-> 1, slots |-> {}, to |-> {}]
        /\ serve = Idle /\ relay = Idle /\ cli = Idle
        /\ ServeInit

\* m.Encode(w) on an empty writer
EncodeCall ==
    /\ call.fn = "Encode" /\ ~call.done
    /\ call' = [call EXCEPT !.done = TRUE, !.ret = Encode(call.arg.m)]
    /\ UNCHANGED <<hm, hs, env, serve, relay, cli, serverVars>>

\* the bytes an Encode wrote, followed by the trailer, are read back: the
\* type tag of a handshake frame by ReadMessageType, the rest by the decoder
DecodeEncoded ==
    /\ call.fn = "Encode" /\ call.done /\ call.ret.err = "none"
    /\ LET tagged == call.arg.m.kind \notin {"ClientMessage", "ServerMessage"}
           r == (IF tagged THEN Tail(call.ret.out) ELSE call.ret.out) \o call.arg.trailer
       IN  call' = [fn |-> "Decode",
                    arg |-> [kind |-> call.arg.m.kind, r |-> r, sent |-> call.arg.m,
                             trailer |-> call.arg.trailer],
                    done |-> TRUE,
                    ret |-> Decode(call.arg.m.kind, r)]
    /\ UNCHANGED <<hm, hs, env, serve, relay, cli, serverVars>>

\* a decoder on a reader of its own
DecodeCall ==
    /\ call.fn = "Decode" /\ ~call.done
    /\ call' = [call EXCEPT !.done = TRUE, !.ret = Decode(call.arg.kind, call.arg.r)]
    /\ UNCHANGED <<hm, hs, env, serve, relay, cli, serverVars>>

\* signChallenge builds the signing input with BuildSignedData; authenticate
\* with BuildSignedDataTo into the region of the auth buffer at offSignedData
SignedDataCall ==
    /\ call.fn = "BuildSignedData" /\ ~call.done
    /\ LET a == call.arg
           region == [i \in 1..(Len(ProtocolVersionBytes) + ChallengeSize + TimestampSize
                                  + ServerIDSize + PublicKeySize + ChannelBindingSize) |-> a.stale]
       IN  call' = [call EXCEPT
                        !.done = TRUE,
                        !.ret = [client |-> BuildSignedData(a.challenge, a.timestamp, a.serverID,
                                                            a.clientPubKey, a.channelBinding),
                                 server |-> BuildSignedDataBytes(region, a.challenge, a.timestamp,
                                                                 a.serverID, a.clientPubKey,
                                                                 a.channelBinding)]]
    /\ UNCHANGED <<hm, hs, env, serve, relay, cli, serverVars>>

\* Serve up to the filling of the auth buffers
ServerIDCall ==
    /\ call.fn = "Serve" /\ ~call.done
    /\ call' = [call EXCEPT !.done = TRUE, !.ret = ServerIDBuf(call.arg)]
    /\ UNCHANGED <<hm, hs, env, serve, relay, cli, serverVars>>

CodecNext ==
    \/ EncodeCall
    \/ DecodeEncoded
    \/ DecodeCall
    \/ SignedDataCall
    \/ ServerIDCall

SpecCodec == CodecInit /\ [][CodecNext]_vars

(***************************************************************************)
(* SpecRelay: messages on their way from the senders to one recipient.     *)
(* Every key of Keys is an authenticated sender; the peer of "kB" is the   *)
(* recipient, subscribed to the subject of its own key. In relay, frame    *)
(* and stage are the frame of each sender and how far it got, bus the      *)
(* messages published and not yet delivered by the broker, open, writeCh   *)
(* and wire the recipient's peer, its queue and what its write pump wrote, *)
(* wl its write pump, enqueued every payload its delivery handler has put  *)
(* on the queue, received what the recipient's client put on its receive   *)
(* channel.                                                                *)
(***************************************************************************)
RelayInit ==
    /\ relay = [pc |-> "run",
                frame |-> [s \in Keys |-> NoFrame],
                stage |-> [s \in Keys |-> "idle"],
                bus |-> {}, open |-> TRUE, writeCh |-> <<>>, wire |-> <<>>,
                wl |-> "run", enqueued |-> <<>>, received |-> <<>>]
    /\ call = NoCall
    /\ hm = NoPump
    /\ hs = NewHandshake("zero", ChallengeTTL)
    /\ env = [maxConnections |-> 1, slots |-> {}, to |-> {}]
    /\ serve = Idle /\ cli = Idle
    /\ ServeInit

\* the clients: a sender writes one frame, addressed to the recipient's key
\* in lower-case hex, in upper-case hex, or to a key nobody is connected
\* with; the recipient's peer is closed (its client leaves, it is taken
\* over), which unsubscribes it and closes its connection
RelayEnvironment ==
    /\ relay.pc = "run"
    /\ \/ \E s \in Keys,
             to \in {EncodeToString(KeyBytes("kB")), UpperCase(EncodeToString(KeyBytes("kB"))),
                     EncodeToString(Filler(PublicKeySize, 1))},
             id \in {<<>>, <<109, 49>>} :
            /\ relay.stage[s] = "idle"
            /\ relay' = [relay EXCEPT
                            !.stage[s] = "sent",
                            !.frame[s] = [kind |-> "ClientMessage", To |-> to, MsgID |-> id,
                                          Payload |-> <<112, 105, 110, 103>>]]
       \/ /\ relay.open
          /\ relay' = [relay EXCEPT !.open = FALSE]
    /\ UNCHANGED <<call, hm, hs, env, serve, cli, serverVars>>

\* handleMessage of the sender's peer on a frame it accepts: the envelope
\* with From = the peer's pubKeyHex, published on the subject of To
handleMessage(s) ==
    /\ relay.pc = "run"
    /\ relay.stage[s] = "sent"
    /\ isValidHexPubKey(relay.frame[s].To)
    /\ LET f == relay.frame[s]
           data == Marshal(EncodeToString(KeyBytes(s)), f.To, f.MsgID, f.Payload, BaseTime)
       IN  relay' = [relay EXCEPT
                        !.stage[s] = "published",
                        !.bus = relay.bus \cup {[subject |-> subjectForClient(f.To),
                                                 data |-> data]}]
    /\ UNCHANGED <<call, hm, hs, env, serve, cli, serverVars>>

\* a broker that delivers a message and keeps it for another delivery (it
\* stops when it has delivered more messages than were sent)
handleNATSMessageAgain ==
    /\ relay.pc = "run"
    /\ Len(relay.enqueued) <= Cardinality(Keys)
    /\ \E m \in relay.bus :
          /\ relay.open
          /\ m.subject = subjectForClient(EncodeToString(KeyBytes("kB")))
          /\ Len(relay.writeCh) < WriteBufferSize
          /\ relay' = [relay EXCEPT !.writeCh = Append(relay.writeCh, m.data),
                                    !.enqueued = Append(relay.enqueued, m.data)]
    /\ UNCHANGED <<call, hm, hs, env, serve, cli, serverVars>>

\* the broker delivers one published message: to handleNATSMessage of the
\* recipient's peer if the message is on the subject of its subscription
\* (newPeer), which enqueues it or, with the queue full, closes the peer; a
\* message on a subject without a subscription is dropped
handleNATSMessage ==
    /\ relay.pc = "run"
    /\ \E m \in relay.bus :
          LET taken == [relay EXCEPT !.bus = relay.bus \ {m}]
          IN  relay' =
                IF relay.open /\ m.subject = subjectForClient(EncodeToString(KeyBytes("kB")))
                THEN IF Len(relay.writeCh) < WriteBufferSize
                     THEN [taken EXCEPT !.writeCh = Append(relay.writeCh, m.data),
                                        !.enqueued = Append(relay.enqueued, m.data)]
                     ELSE [taken EXCEPT !.open = FALSE]
                ELSE taken
    /\ UNCHANGED <<call, hm, hs, env, serve, cli, serverVars>>

\* a write pump that logs a write error, drops the payload and goes on
writeMessageSkips ==
    /\ relay.pc = "run"
    /\ relay.wl = "run"
    /\ \/ /\ ~relay.open
          /\ relay' = [relay EXCEPT !.wl = "done"]
       \/ /\ relay.open
          /\ relay.writeCh # <<>>
          /\ \E res \in {Ok, WriteErr} :
                relay' = IF res = Ok
                         THEN [relay EXCEPT
                                  !.writeCh = Tail(relay.writeCh),
                                  !.wire = Append(relay.wire, [kind |-> "ServerMessage",
                                                               Data |-> Head(relay.writeCh)])]
                         ELSE [relay EXCEPT !.writeCh = Tail(relay.writeCh)]
    /\ UNCHANGED <<call, hm, hs, env, serve, cli, serverVars>>

\* writeLoop and writeMessage of the recipient's peer, one turn of the
\* select: the pump of a closed peer returns; the next payload is taken from
\* the queue and written as one ServerMessage; a write error closes the peer
\* and the pump returns
writeMessage ==
    /\ relay.pc = "run"
    /\ relay.wl = "run"
    /\ \/ /\ ~relay.open
          /\ relay' = [relay EXCEPT !.wl = "done"]
       \/ /\ relay.open
          /\ relay.writeCh # <<>>
          /\ \E res \in {Ok, WriteErr} :
                relay' = IF res = Ok
                         THEN [relay EXCEPT
                                  !.writeCh = Tail(relay.writeCh),
                                  !.wire = Append(relay.wire, [kind |-> "ServerMessage",
                                                               Data |-> Head(relay.writeCh)])]
                         ELSE [relay EXCEPT !.open = FALSE, !.wl = "done",
                                            !.writeCh = Tail(relay.writeCh)]
    /\ UNCHANGED <<call, hm, hs, env, serve, cli, serverVars>>

\* readLoop of the recipient's client: DecodeServerMessage, proto.Unmarshal
\* of its Data, and the message is put on recv
ClientReceives ==
    /\ relay.pc = "run"
    /\ relay.wire # <<>>
    /\ LET data == Head(relay.wire).Data
           msg == [From |-> data.From, To |-> data.To, Id |-> data.Id,
                   Payload |-> data.Payload, UnixDateTime |-> data.UnixDateTime]
       IN  relay' = [relay EXCEPT !.wire = Tail(relay.wire),
                                  !.received = Append(relay.received, msg)]
    /\ UNCHANGED <<call, hm, hs, env, serve, cli, serverVars>>

RelayNext ==
    \/ RelayEnvironment
    \/ \E s \in Keys : handleMessage(s)
    \/ handleNATSMessage
    \/ writeMessage
    \/ ClientReceives

\* the handlers, the broker, the write pump and the client's read pump are
\* each scheduled when they can take a step
SpecRelay ==
    /\ RelayInit
    /\ [][RelayNext]_vars
    /\ WF_vars(\E s \in Keys : handleMessage(s))
    /\ WF_vars(handleNATSMessage)
    /\ WF_vars(writeMessage)
    /\ WF_vars(ClientReceives)

(***************************************************************************)
(* Properties of the registry, the accept loop and the peer (Spec)         *)
(***************************************************************************)
Registered == {k \in Keys : peers[k] # NoConn}

HeldBuffers == Cardinality({c \in Conns : heldBuf[c] = 1})

\* the handler of c is in its read pump: its peer was stored and the handler
\* has not begun to leave
InReadPump(c) == pc[c] \in {"loop", "read"}

\* C1: of the peers of one identity whose handlers have stored them and are
\* in the read pump, at most one is open: when the later one was stored, the
\* other had been closed.
C1_OneOpenPeerPerIdentity ==
    \A c, d \in Conns :
        (c # d /\ InReadPump(c) /\ InReadPump(d) /\ peer[c].id = peer[d].id)
            => (peer[c].closeStep >= 1 \/ peer[d].closeStep >= 1)

\* C2: the auth buffers held by handler goroutines plus the buffers in
\* authSem are MaxConnections, each goroutine holds at most one, and the
\* registry never has more than MaxConnections entries.
C2_BufferConservation ==
    /\ \A c \in Conns : heldBuf[c] \in {0, 1}
    /\ authSem >= 0
    /\ authSem + HeldBuffers = env.maxConnections
    /\ Cardinality(Registered) <= env.maxConnections

\* every buffer is out and the registry is as full as it can get
C2_Witness ==
    /\ authSem = 0
    /\ Cardinality(Registered) = env.maxConnections

\* C3: a connection accepted while authSem is empty is closed in that step:
\* it gets no buffer and no handler, no peer is created, the registry is not
\* touched; nothing but its leaving happens to it afterwards, and the other
\* connections are left as they were.
C3_RefusedWithoutBuffer ==
    [][\A c \in Conns :
        /\ (sock[c] = "new" /\ sock'[c] # "new" /\ authSem = 0)
              => /\ sock'[c] = "closed"
                 /\ pc'[c] = "refused"
                 /\ authSem' = authSem /\ heldBuf' = heldBuf
                 /\ authErr' = authErr /\ old' = old
                 /\ peers' = peers /\ peer' = peer
                 /\ \A d \in Conns \ {c} : sock'[d] = sock[d] /\ pc'[d] = pc[d]
        /\ pc[c] = "refused"
              => /\ pc'[c] \in {"refused", "none"}
                 /\ sock'[c] \in {"closed", "new"}
                 /\ peer'[c] = NoPeer /\ heldBuf'[c] = 0]_vars

\* a connection was refused while another one holds the last buffer
C3_Witness ==
    \E c, d \in Conns :
        /\ pc[c] = "refused" /\ sock[c] = "closed" /\ authSem = 0
        /\ pc[d] \in {"loop", "read"}

\* the peer of c has ended: Close has been entered on it, or its handler has
\* left the read pump
PeerEnded(c) ==
    /\ peer[c].id # "none"
    /\ \/ peer[c].closeStep >= 1
       \/ pc[c] \in {"unregister", "closeSelf", "release", "done"}

\* everything the connection held is released
CleanedUp(c) ==
    /\ peer[c].sub # "active"
    /\ peer[c].closeStep \in {0, 3}
    /\ sock[c] # "open"
    /\ \A k \in Keys : peers[k] # c
    /\ heldBuf[c] = 0

\* C4: once a peer has ended, whatever ended it, eventually its subscription
\* is unsubscribed, its socket closed, the registry does not map its PeerID
\* to it and its auth buffer is back in authSem.
C4_PeerCleanedUp == \A c \in Conns : PeerEnded(c) ~> CleanedUp(c)

\* a peer that a slow-consumer overflow or a failed write ended is cleaned up
C4_Witness ==
    \E c \in Conns :
        /\ pc[c] = "done" /\ peer[c].closer \in {"deliver", "writeLoop", "takeover"}
        /\ CleanedUp(c) /\ peer[c].sub = "gone" /\ authSem = env.maxConnections

\* C5: however many callers enter Peer.Close, closeCh is closed at most once,
\* Unsubscribe is called at most once and Close closes the connection at most
\* once; when a Close has returned each has happened exactly once.
C5_CloseOnce ==
    \A c \in Conns :
        LET p == peer[c]
        IN  /\ p.closeChCloses <= 1 /\ p.unsubscribes <= 1 /\ p.connCloses <= 1
            /\ p.closeStep = 0 => p.closeChCloses = 0
            /\ p.closeStep >= 1 => p.closeChCloses = 1
            /\ p.closeStep >= 2 <=> p.unsubscribes = 1
            /\ p.closeStep = 3 <=> p.connCloses = 1

\* three callers of Close on one peer: the write pump or the delivery
\* callback closed it, a takeover and its own handler call Close as well
C5_Witness ==
    \E c, d \in Conns :
        /\ c # d /\ old[d] = c /\ pc[d] = "closeOld" /\ pc[c] = "closeSelf"
        /\ peer[c].closeStep = 3 /\ peer[c].closer \in {"writeLoop", "deliver"}

\* authenticate returned an error to the handler of c
HandshakeFailed(c) == authErr[c] \notin {"none", "nil"}

\* C7: the step in which authenticate fails leaves the registry and every
\* peer as they were (no subscription, no write pump) and sends the handler
\* to its exit; the exit closes the connection and puts the buffer back,
\* again without touching registry or peers.
C7_FailedHandshakeLeavesNoTrace ==
    [][\A c \in Conns :
        /\ (pc[c] = "auth" /\ HandshakeFailed(c)')
              => /\ peers' = peers /\ peer' = peer /\ peer[c] = NoPeer
                 /\ pc'[c] = "release"
        /\ (pc[c] = "release" /\ HandshakeFailed(c) /\ pc'[c] # pc[c])
              => /\ peers' = peers /\ peer' = peer /\ peer[c] = NoPeer
                 /\ sock'[c] = "closed"
                 /\ heldBuf[c] = 1 /\ heldBuf'[c] = 0 /\ authSem' = authSem + 1
                 /\ pc'[c] = "done"]_vars

\* a handshake failed on a replayed signature while another peer is
\* registered, and its handler has left
C7_Witness ==
    \E c \in Conns :
        /\ pc[c] = "release" /\ authErr[c] = "invalid signature"
        /\ Registered # {}

(***************************************************************************)
(* Properties of the handshake (SpecAuth)                                  *)
(***************************************************************************)
\* the signing input of this handshake: the challenge, timestamp and server
\* id of the ServerChallenge it sent, the key of the ClientHello, the channel
\* binding of this session
ExpectedSignedData ==
    <<ProtocolVersion, hs.sent[1][2], hs.sent[1][3], hs.sent[1][4],
      hs.bufPubKey, hs.cb>>

\* the replay check has run and let the handshake through
TimestampAccepted ==
    \/ hs.pc = "sendResult"
    \/ /\ hs.pc = "done" /\ hs.err \in {"nil", "send auth result"}
       /\ hs.err = "nil" => hs.sent[Len(hs.sent)] = <<TypeAuthResult, AuthStatusOK>>

\* C6: authenticate succeeds only if the signature it read was made with the
\* key of the ClientHello over this handshake's signing input; once the
\* channel binding is known, a signature over any other input (another
\* challenge, timestamp, key or session) has ended the handshake with
\* "invalid signature" and without an AuthResult(OK).
C6_SuccessOnlyWithValidSignature ==
    /\ hs.err = "nil"
          => /\ Len(hs.sent) = 2 /\ hs.sent[1][1] = TypeServerChallenge
             /\ hs.bufSignature.signer = hs.bufPubKey
             /\ hs.bufSignature.data = ExpectedSignedData
    /\ (hs.cb # "none" /\ ( \/ hs.bufSignature.signer # hs.bufPubKey
                            \/ hs.bufSignature.data # ExpectedSignedData))
          => /\ hs.pc = "done" /\ hs.err = "invalid signature"
             /\ Len(hs.sent) = 1

\* a handshake on the second session with the second challenge succeeded
C6_Witness ==
    /\ hs.err = "nil" /\ hs.cb = "cb2" /\ hs.bufChallenge = "ch2"
    /\ hs.bufSignature = Sign(hs.bufPubKey, ExpectedSignedData)

\* C8: when the signature does not verify, the server has written an
\* AuthResult with status InvalidSig before authenticate fails.
C8_InvalidSigAnswered ==
    hs.err = "invalid signature"
        => \E i \in 1..Len(hs.sent) : hs.sent[i] = <<TypeAuthResult, AuthStatusInvalidSig>>

\* C9: with a ChallengeTTL of whole seconds, a challenge whose age at the
\* replay check is exactly the TTL is accepted, and one that is a second
\* older is rejected as expired, no AuthResult(OK) sent.
C9_TTLBoundary ==
    (hs.now # 0 /\ hs.ttl % 1000 = 0)
        => /\ hs.now - hs.timestamp = hs.ttl \div 1000 => TimestampAccepted
           /\ hs.now - hs.timestamp = hs.ttl \div 1000 + 1
                 => /\ hs.pc = "done" /\ hs.err = "challenge expired"
                    /\ Len(hs.sent) = 1

\* a handshake whose challenge was exactly ChallengeTTL old succeeded
C9_Witness ==
    /\ hs.err = "nil" /\ hs.ttl = ChallengeTTL
    /\ hs.now - hs.timestamp = TTLSeconds(ChallengeTTL)

\* C10: a timestamp 60 s ahead of the server clock at the replay check is
\* accepted, one 61 s ahead is rejected as a timestamp in the future.
C10_FutureBoundary ==
    hs.now # 0
        => /\ hs.timestamp = hs.now + FutureSkew => TimestampAccepted
           /\ hs.timestamp = hs.now + FutureSkew + 1
                 => hs.pc = "done" /\ hs.err = "timestamp in future"

\* C11: the deadline is armed once, before the first read, and stays armed
\* during the exchange; on every return after it was armed (success and
\* each failure) it has been cleared; a return before it was armed leaves
\* the connection without a deadline.
C11_DeadlineSetOnceAndCleared ==
    /\ hs.deadlineSets <= 1
    /\ hs.pc = "start" => hs.deadlineSets = 0 /\ hs.deadline = "none"
    /\ hs.pc \notin {"start", "done"} => hs.deadlineSets = 1 /\ hs.deadline = "set"
    /\ (hs.pc = "done" /\ hs.err # "set deadline")
          => hs.deadlineSets = 1 /\ hs.deadline = "cleared"
    /\ (hs.pc = "done" /\ hs.err = "set deadline")
          => hs.deadlineSets = 0 /\ hs.deadline = "none"

\* the handshake succeeded and the data phase starts without a deadline
C11_Witness ==
    /\ hs.pc = "done" /\ hs.err = "nil"
    /\ hs.deadline = "cleared" /\ hs.deadlineSets = 1

\* C12: every handshake returns, whatever the client does: a client that
\* stays silent or stops in the middle of a frame is cut off by the
\* deadline armed on entry.
C12_HandshakeTerminates == <>(hs.pc = "done")

\* a handshake with a client that never sent a byte ended on the deadline
C12_Witness ==
    /\ hs.pc = "done" /\ hs.expired
    /\ hs.err = "read hello type" /\ hs.sent = <<>>

(***************************************************************************)
(* Properties of the recipient validation (SpecHex)                        *)
(***************************************************************************)
\* the hex digits, one by one
HexDigits ==
    {48, 49, 50, 51, 52, 53, 54, 55, 56, 57,
     65, 66, 67, 68, 69, 70,
     97, 98, 99, 100, 101, 102}

IsHex64(s) == Len(s) = 64 /\ \A i \in 1..Len(s) : s[i] \in HexDigits

\* C14: isValidHexPubKey(s) is true exactly when s has 64 characters, all
\* of them hex digits of either case; a string with '*', '>', '.', a space
\* or 'g' in it, and a string of another length (the empty one too), is
\* rejected.
C14_ValidExactlyHex64 ==
    call.done
        => /\ call.ret <=> IsHex64(call.arg)
           /\ Len(call.arg) # 64 => ~call.ret
           /\ (\E i \in 1..Len(call.arg) : call.arg[i] \in {42, 62, 46, 32, 103})
                 => ~call.ret

\* a recipient with digits of both cases was accepted
C14_Witness ==
    /\ call.done /\ call.ret
    /\ \E i, j \in 1..Len(call.arg) :
          call.arg[i] \in 65..70 /\ call.arg[j] \in 97..102


(***************************************************************************)
(* Properties of the read pump and handleMessage (SpecPump)                *)
(***************************************************************************)
\* the read loop has returned: the deferred cleanup is running or has run
PumpExiting == hm.pc \in {"delete", "close", "done"}

\* C13: every Publish is made on the subject of a recipient of 64 hex
\* digits; a frame whose To is not one gives the error of the invalid
\* recipient, the read loop returns without a Publish for that frame, and
\* when the cleanup has run the peer is unregistered and its connection
\* closed.
C13_PublishOnlyToValidRecipient ==
    /\ \A i \in 1..Len(hm.publishes) : IsHex64(hm.publishes[i].subject.hex)
    /\ hm.err = "invalid recipient pubkey format"
          => /\ PumpExiting
             /\ ~IsHex64(SubSeq(hm.buf, 1, 64))
             /\ Len(hm.publishes) < hm.calls
             /\ hm.pc = "done" => (hm.closed /\ ~hm.registered)

\* a second frame with a bad recipient, after a first one that was published,
\* has ended the pump
C13_Witness ==
    /\ hm.err = "invalid recipient pubkey format"
    /\ hm.pc = "done"
    /\ Len(hm.publishes) = 1
    /\ hm.calls = 2

\* the length a four-byte prefix states, and the MsgIDLen field of a body
PrefixValue(b) == b[1] * 16777216 + b[2] * 65536 + b[3] * 256 + b[4]
MsgIDLenField(b) == b[65] * 256 + b[66]

\* the four conditions under which a frame of total bytes is to be accepted
FrameAcceptable(total, body) ==
    /\ 66 <= total /\ total <= MaxMessageSize
    /\ IsHex64(SubSeq(body, 1, 64))
    /\ MsgIDLenField(body) <= 256
    /\ 66 + MsgIDLenField(body) <= total

\* C15: handleMessage, when its reads succeed, goes on from the length
\* prefix to the body exactly when 66 <= TotalLen <= MaxMessageSize, and
\* otherwise returns an error with no byte of the body read; it goes on from
\* the body to the envelope and its Publish exactly when To is 64 hex
\* digits, MsgIDLen <= 256 and 66 + MsgIDLen <= TotalLen, and otherwise
\* returns an error.
C15_AcceptsExactlyWellFormed ==
    [][/\ (hm.pc = "readLength" /\ hm'.pc # "readLength" /\ hm'.err # "read length")
            => LET total == PrefixValue(SubSeq(hm'.buf, 1, 4))
               IN  /\ hm'.pc = "readBody" <=> (66 <= total /\ total <= MaxMessageSize)
                   /\ hm'.pc = "readBody" => hm'.totalLen = total
                   /\ hm'.pc # "readBody"
                         => (hm'.pc = "delete" /\ hm'.bodyRead = 0 /\ hm'.err # "none"
                             /\ hm'.publishes = hm.publishes)
       /\ (hm.pc = "readBody" /\ hm'.pc # "readBody" /\ hm'.err # "read message body")
            => LET body == SubSeq(hm'.buf, 1, hm.totalLen)
               IN  /\ hm'.pc = "marshal" <=> FrameAcceptable(hm.totalLen, body)
                   /\ hm'.pc # "marshal"
                         => (hm'.pc = "delete" /\ hm'.err # "none"
                             /\ hm'.publishes = hm.publishes)]_vars

\* the boundary frames have been handled: 66 bytes with an empty MsgID and
\* an empty Payload published, and a MsgID of 256 bytes in a frame of
\* MaxMessageSize bytes published
C15_Witness ==
    /\ hm.pc = "loop"
    /\ Len(hm.publishes) = 2
    /\ Len(hm.accepted[1]) = MaxMessageSize
    /\ Len(hm.publishes[1].data.Id) = 256
    /\ hm.totalLen = 66 /\ hm.msgID = <<>> /\ hm.payload = <<>>

\* C16: every envelope handed to Publish has as From the lower-case hex of
\* the key the connection authenticated with, whatever the frame holds, and
\* as To, Id and Payload the To, MsgID and Payload of the frame it was made
\* from; it is published on the subject made of that To.
C16_EnvelopeCarriesSenderAndFrame ==
    \A i \in 1..Len(hm.publishes) :
        LET p == hm.publishes[i]
            from == p.data.From
            value(c) == IF c <= 57 THEN c - 48 ELSE c - 87
        IN  /\ i <= Len(hm.accepted)
            /\ Len(from) = 64
            /\ \A j \in 1..64 : from[j] \in (48..57) \cup (97..102)
            /\ \A j \in 1..32 :
                  16 * value(from[2 * j - 1]) + value(from[2 * j]) = KeyBytes(hm.key)[j]
            /\ LET body == hm.accepted[i]
                   n == MsgIDLenField(body)
               IN  /\ p.data.To = SubSeq(body, 1, 64)
                   /\ p.data.Id = SubSeq(body, 67, 66 + n)
                   /\ p.data.Payload = SubSeq(body, 67 + n, Len(body))
                   /\ p.subject = [prefix |-> "goro.msg.", hex |-> SubSeq(body, 1, 64)]

\* an envelope with a MsgID and a Payload has been published for a
\* recipient other than the sender
C16_Witness ==
    /\ Len(hm.publishes) >= 1
    /\ hm.publishes[1].res = Ok
    /\ hm.publishes[1].data.Id # <<>>
    /\ hm.publishes[1].data.Payload # <<>>
    /\ hm.publishes[1].data.To # hm.publishes[1].data.From

\* C17: the Publish calls of a peer are, one for one and in the order they
\* were read, the frames handleMessage accepted: the i-th call carries the
\* i-th accepted frame, none twice and none left out; only the frame being
\* serialized or published at the moment (or one whose serialization
\* failed) has no call yet.
C17_PublishesFollowAcceptedFrames ==
    /\ Len(hm.publishes) <= Len(hm.accepted)
    /\ Len(hm.accepted) <= Len(hm.publishes) + 1
    /\ Len(hm.accepted) = Len(hm.publishes) + 1
          => (hm.pc \in {"marshal", "publish"} \/ hm.err = "marshal message")
    /\ \A i \in 1..Len(hm.publishes) :
          LET d == hm.publishes[i].data
          IN  i <= Len(hm.accepted)
                => d.To \o <<Len(d.Id) \div 256, Len(d.Id) % 256>> \o d.Id \o d.Payload
                      = hm.accepted[i]

\* two different frames have been accepted and published
C17_Witness ==
    /\ Len(hm.publishes) = 2
    /\ Len(hm.accepted) = 2
    /\ hm.accepted[1] # hm.accepted[2]
    /\ hm.publishes[2].res = Ok

\* C18: when Publish returns an error, handleMessage returns it as
\* "publish to NATS" and the read loop returns; from then on no frame is read
\* and nothing is published, and when the cleanup has run the peer is
\* unregistered and closed.
C18_PublishErrorEndsPeer ==
    [][/\ (hm.pc = "publish" /\ hm'.pc # "publish"
            /\ hm'.publishes[Len(hm'.publishes)].res = Fail)
            => (hm'.err = "publish to NATS" /\ hm'.pc = "delete"
                /\ hm'.exit = "handle message")
       /\ hm.err = "publish to NATS"
            => /\ hm'.err = hm.err
               /\ hm'.calls = hm.calls
               /\ hm'.publishes = hm.publishes
               /\ hm'.pc \in {"delete", "close", "done"}
               /\ hm'.pc = "done" => (~hm'.registered /\ hm'.closed)]_vars

\* the Publish of the second frame failed and the peer is gone
C18_Witness ==
    /\ hm.err = "publish to NATS"
    /\ hm.pc = "done"
    /\ ~hm.registered /\ hm.closed
    /\ Len(hm.publishes) = 2
    /\ hm.publishes[1].res = Ok /\ hm.publishes[2].res = Fail

\* C19: when a Publish fails, the error is reported for that one message
\* and the peer stays registered and open, its read loop going on with the
\* next message.
C19_PeerSurvivesPublishError ==
    [][(hm.pc = "publish" /\ hm'.pc # "publish"
            /\ hm'.publishes[Len(hm'.publishes)].res = Fail)
          => (hm'.pc = "loop" /\ hm'.registered /\ hm'.closed = hm.closed)]_vars

\* C20: the read loop takes one token from the limiter before each message
\* it reads, so the messages read, and the messages published, are never
\* more than the tokens granted; when the limiter refuses, the loop returns
\* at once, with no further read, and the peer is disconnected.
C20_OneTokenPerMessage ==
    /\ 0 <= hm.tokens /\ hm.tokens <= RateLimitBurst
    /\ hm.calls <= hm.granted
    /\ hm.granted <= hm.calls + 1
    /\ hm.granted = hm.calls + 1 <=> hm.pc = "readLength"
    /\ Len(hm.publishes) <= hm.granted
    /\ hm.exit = "rate limit exceeded"
          => /\ PumpExiting
             /\ hm.calls = hm.granted
             /\ hm.tokens = 0
             /\ hm.pc = "done" => (hm.closed /\ ~hm.registered)

\* the limiter refused the second message after the first was published
C20_Witness ==
    /\ hm.exit = "rate limit exceeded"
    /\ hm.pc = "done"
    /\ hm.granted = 1
    /\ Len(hm.publishes) = 1
    /\ hm.closed

(***************************************************************************)
(* Properties of the delivery path, the shutdown and the cleanup order     *)
(***************************************************************************)
\* C21: the outbound queue of a peer never holds more than WriteBufferSize
\* payloads and the delivery handler can always run; a delivery that finds
\* room on a peer that is not closed is enqueued and leaves the peer open,
\* and one that finds the queue full on a peer that is not closed starts the
\* close of that peer.
C21_BoundedQueueAndEviction ==
    [][\A c \in Conns :
          /\ Len(peer'[c].writeCh) <= WriteBufferSize
          /\ (peer[c].sub = "active" /\ peer[c].pending # <<>> /\ peer[c].closer # "deliver")
                => ENABLED Deliver(c)
          /\ (peer[c].pending # <<>> /\ peer'[c].pending = Tail(peer[c].pending)
                /\ peer'[c].sub = "active" /\ peer[c].closeStep = 0)
                => IF Len(peer[c].writeCh) < WriteBufferSize
                   THEN /\ peer'[c].writeCh = Append(peer[c].writeCh, Head(peer[c].pending))
                        /\ peer'[c].closeStep = 0
                   ELSE /\ peer'[c].writeCh = peer[c].writeCh
                        /\ peer'[c].closeStep = 1
                        /\ peer'[c].closer = "deliver"]_vars

\* a peer with a full queue has been closed by its delivery handler
C21_Witness ==
    \E c \in Conns :
        /\ peer[c].closer = "deliver"
        /\ Len(peer[c].writeCh) = WriteBufferSize

C25_DecodeInvertsEncode ==
    LET Valid(m) ==
            CASE m.kind = "AuthResult" ->
                    IF m.Status = AuthStatusOK THEN m.ErrorMsg = <<>>
                    ELSE Len(m.ErrorMsg) <= MaxErrorMsgLen
              [] m.kind = "ClientMessage" ->
                    /\ Len(m.To) = 64
                    /\ Len(m.MsgID) <= MaxMsgIDLen
                    /\ 66 + Len(m.MsgID) + Len(m.Payload) <= ProtocolMaxMessageSize
              [] m.kind = "ServerMessage" -> Len(m.Data) <= ProtocolMaxMessageSize
              [] OTHER -> TRUE
        Tag(m) ==
            CASE m.kind = "ClientHello" -> <<1>>
              [] m.kind = "ServerChallenge" -> <<2>>
              [] m.kind = "ClientResponse" -> <<3>>
              [] m.kind = "AuthResult" -> <<4>>
              [] OTHER -> <<>>
    IN  /\ (call.fn = "Encode" /\ call.done /\ Valid(call.arg.m)) =>
                /\ call.ret.err = "none"
                /\ SubSeq(call.ret.out, 1, Len(Tag(call.arg.m))) = Tag(call.arg.m)
        /\ (call.fn = "Decode" /\ call.done /\ call.arg.sent.kind # "none"
                /\ Valid(call.arg.sent)) =>
                /\ call.ret.err = "none"
                /\ call.ret.m = call.arg.sent
                /\ call.ret.rest = call.arg.trailer

C25_Witness ==
    /\ call.fn = "Decode" /\ call.done
    /\ call.arg.sent.kind = "ClientMessage"
    /\ Len(call.arg.sent.MsgID) = MaxMsgIDLen
    /\ Len(call.arg.r) = 4 + ProtocolMaxMessageSize + 2
    /\ call.ret.m = call.arg.sent
    /\ call.ret.rest = <<7, 9>>

\* C26: ClientMessage.Encode returns an error and writes nothing when To is
\* not 64 bytes, when MsgID is longer than MaxMsgIDLen, or when
\* 66 + len(MsgID) + len(Payload) is over MaxMessageSize; ServerMessage.Encode
\* returns an error and writes nothing when Data is longer than
\* MaxMessageSize.
C26_EncodeRefusesWithoutWriting ==
    (call.fn = "Encode" /\ call.done) =>
        LET m == call.arg.m
            refused ==
                CASE m.kind = "ClientMessage" ->
                        \/ Len(m.To) # 64
                        \/ Len(m.MsgID) > MaxMsgIDLen
                        \/ 66 + Len(m.MsgID) + Len(m.Payload) > ProtocolMaxMessageSize
                  [] m.kind = "ServerMessage" -> Len(m.Data) > ProtocolMaxMessageSize
                  [] OTHER -> FALSE
        IN  refused => (call.ret.err # "none" /\ call.ret.out = <<>>)

C26_Witness ==
    /\ call.fn = "Encode" /\ call.done
    /\ call.arg.m.kind = "ClientMessage"
    /\ Len(call.arg.m.To) = 64
    /\ Len(call.arg.m.MsgID) = MaxMsgIDLen
    /\ 66 + Len(call.arg.m.MsgID) + Len(call.arg.m.Payload) = ProtocolMaxMessageSize + 1
    /\ call.ret.err = "message too large"
    /\ call.ret.out = <<>>

\* C27: every decoder returns an error and no frame when the reader holds
\* fewer bytes than the frame requires or a length field is over its maximum:
\* TotalLen over MaxMessageSize (DecodeClientMessage, DecodeServerMessage),
\* MsgIDLen over MaxMsgIDLen or beyond the data (DecodeClientMessage), ErrLen
\* over MaxErrorMsgLen (DecodeAuthResult).
C27_DecodersAreStrict ==
    (call.fn = "Decode" /\ call.done) =>
        LET r == call.arg.r
            kind == call.arg.kind
            totalLen == Uint32(SubSeq(r, 1, 4))
            msgIDLen == Uint16(SubSeq(r, 69, 70))
            errLen == Uint16(SubSeq(r, 2, 3))
            malformed ==
                CASE kind = "ClientHello" -> Len(r) < 32
                  [] kind = "ServerChallenge" -> Len(r) < 72
                  [] kind = "ClientResponse" -> Len(r) < 64
                  [] kind = "AuthResult" ->
                        \/ Len(r) < 1
                        \/ /\ r[1] # AuthStatusOK
                           /\ \/ Len(r) < 3
                              \/ errLen > MaxErrorMsgLen
                              \/ Len(r) < 3 + errLen
                  [] kind = "ClientMessage" ->
                        \/ Len(r) < 4
                        \/ totalLen > ProtocolMaxMessageSize
                        \/ Len(r) < 4 + totalLen
                        \/ totalLen < 66
                        \/ msgIDLen > MaxMsgIDLen
                        \/ 66 + msgIDLen > totalLen
                  [] kind = "ServerMessage" ->
                        \/ Len(r) < 4
                        \/ totalLen > ProtocolMaxMessageSize
                        \/ Len(r) < 4 + totalLen
        IN  malformed => (call.ret.err # "none" /\ call.ret.m = NoFrame)

\* C29: a server_id longer than 32 bytes is cut to its first 32 bytes and a
\* shorter one is filled with zero bytes up to 32; in both cases Serve goes
\* on with that value in the auth buffers.
C29_ServerIDTruncatedOrPadded ==
    (call.fn = "Serve" /\ call.done) =>
        /\ call.ret.err = "none"
        /\ call.ret.serverID =
                [i \in 1..32 |-> IF i <= Len(call.arg) THEN call.arg[i] ELSE 0]

\* C23: on the shutdown signal the listener is closed first and the accept
\* loop exits; the broker is closed only after every connection handler in
\* flight has finished: when the broker is closed no handler is running, no
\* peer is registered and none is reading.
C23_BrokerClosedAfterHandlers ==
    /\ serve.pc # "accept" => (serve.ctx = "done" /\ serve.listener = "closed")
    /\ serve.broker = "closed" =>
            /\ serve.listener = "closed"
            /\ \A c \in Conns : pc[c] \in {"none", "done", "refused"}
            /\ \A k \in Keys : peers[k] = NoConn

\* C30: in every execution of Peer.Close the subscription is unsubscribed
\* before the connection is closed; a handler on its way out first removes
\* the registry entry, then runs Peer.Close, and gives its auth buffer back
\* last, as its final step.
C30_CleanupOrder ==
    [][\A c \in Conns :
          /\ (peer'[c].unsubscribes > peer[c].unsubscribes)
                => (peer[c].closeStep = 1 /\ peer[c].connCloses = 0)
          /\ (peer'[c].connCloses > peer[c].connCloses)
                => /\ peer[c].closeStep = 2
                   /\ peer[c].sub = "gone"
                   /\ peer[c].unsubscribes = 1
          /\ (pc[c] = "unregister" /\ pc'[c] # "unregister")
                => /\ pc'[c] = "closeSelf"
                   /\ peers'[peer[c].id] = NoConn
                   /\ peer' = peer
          /\ (peer'[c].closer = "handler" /\ peer[c].closer # "handler")
                => (pc[c] = "closeSelf" /\ peers[peer[c].id] # c)
          /\ (pc[c] = "closeSelf" /\ pc'[c] # "closeSelf")
                => (pc'[c] = "release" /\ peer[c].closeStep = 3 /\ heldBuf'[c] = heldBuf[c])
          /\ (heldBuf'[c] < heldBuf[c])
                => /\ pc[c] = "release" /\ pc'[c] = "done"
                   /\ authSem' = authSem + 1
                   /\ peer[c].id # "none"
                        => (peer[c].closeStep = 3 /\ peers[peer[c].id] # c)]_vars

C30_Witness ==
    \E c \in Conns :
        /\ pc[c] = "done"
        /\ peer[c].closer = "handler"
        /\ peer[c].unsubscribes = 1
        /\ peer[c].connCloses = 1
        /\ heldBuf[c] = 0

(***************************************************************************)
(* Properties of the client (SpecClient)                                   *)
(***************************************************************************)
\* C28: in the client the connection is closed at most once whichever pump
\* calls closeAll; the receive channel is closed at most once, only when
\* both pumps have returned and the connection is closed, and nothing is
\* sent on it afterwards; and once the send channel is closed the
\* connection is eventually closed and the receive channel after it.
C28_ClientTeardown ==
    /\ [](/\ cli.connCloses <= 1
          /\ cli.closeChCloses <= 1
          /\ cli.recvCloses <= 1
          /\ cli.lateSends = 0
          /\ cli.recvCloses = 1 =>
                (cli.rl = "done" /\ cli.wl = "done" /\ cli.conn = "closed"
                    /\ cli.connCloses = 1))
    /\ (cli.sendClosed ~> (cli.conn = "closed" /\ cli.recvCloses = 1))

C28_Witness ==
    /\ cli.sendClosed
    /\ cli.closer = "wl"
    /\ cli.connCloses = 1
    /\ cli.recvCloses = 1
    /\ cli.recv # <<>>
    /\ cli.written = MaxSends

C31_NoEnqueueAfterCloseSignal ==
    [][\A c \in Conns :
          peer[c].closeStep >= 1 => Len(peer'[c].writeCh) <= Len(peer[c].writeCh)]_vars

\* C32: at most one task writes to a connection at any time: while
\* authenticate runs (it writes ServerChallenge and AuthResult) the write
\* pump of the connection has not been started, and a payload leaves the
\* outbound queue for the connection only in a step of the running write
\* pump, after the handler has stored the peer; no step of the read pump,
\* the delivery handler or a takeover takes a payload to write it.
C32_SingleWriter ==
    [][\A c \in Conns :
          /\ pc[c] = "auth" => peer[c].wl = "none"
          /\ (pc[c] = "auth" /\ pc'[c] # "auth") => peer'[c].wl = "none"
          /\ (peer[c].writeCh # <<>> /\ peer'[c].writeCh = Tail(peer[c].writeCh)
                /\ peer'[c].id = peer[c].id)
                => /\ peer[c].wl = "run"
                   /\ pc[c] \in {"loop", "read", "unregister", "closeSelf", "release", "done"}
                   /\ pc'[c] = pc[c]
                   /\ \A d \in Conns \ {c} : pc'[d] = pc[d] /\ peer'[d] = peer[d]]_vars

C32_Witness ==
    \E c \in Conns :
        /\ authErr[c] = "nil"
        /\ pc[c] = "read"
        /\ peer[c].wl = "run"
        /\ peer[c].writeCh # <<>>
        /\ peer[c].closeStep = 0

\* C33: every open peer whose handler has completed the registration step and
\* is in its read pump is the registry's entry of its PeerID; the deferred
\* removal of a predecessor that was taken over leaves the entry of its
\* successor in place.
C33_OpenPeerIsRegistered ==
    \A c \in Conns :
        (pc[c] \in {"loop", "read"} /\ peer[c].closeStep = 0) => peers[peer[c].id] = c

\* C34: the envelope published for an accepted client frame (TotalLen at most
\* MaxMessageSize, MsgID at most 256 bytes) is one that ServerMessage.Encode
\* does not refuse for its size, so that writing it does not close the
\* recipient.
C34_AcceptedEnvelopeFits ==
    \A i \in 1..Len(hm.publishes) :
        Encode([kind |-> "ServerMessage",
                Data |-> Filler(Size(hm.publishes[i].data), 0)]).err = "none"

\* C35: the rate limiter disconnects a peer only after the client has sent
\* more messages than the bucket holds: a peer from which the read pump has
\* read at most RateLimitBurst messages since it connected is not disconnected
\* for its rate.
C35_DisconnectOnlyBeyondBurst ==
    hm.exit = "rate limit exceeded" => hm.calls > RateLimitBurst

\* C36: a frame whose To passes the validation is published on the subject
\* that the peer owning the key named by To is subscribed to: a To that
\* spells the recipient's key in upper-case or mixed-case hex digits is
\* published on the subject of the recipient's subscription, as the
\* lower-case spelling is.
C36_ValidToReachesOwner ==
    LET LowerCase(t) == [i \in DOMAIN t |-> IF 65 <= t[i] /\ t[i] <= 70 THEN t[i] + 32 ELSE t[i]]
        subscribed == subjectForClient(EncodeToString(KeyBytes("kB")))
    IN  \A m \in relay.bus :
            LowerCase(m.data.To) = EncodeToString(KeyBytes("kB")) => m.subject = subscribed

C38_HandshakeInOrder ==
    [][LET order == <<"start", "helloType", "pubKey", "challenge", "sendChallenge",
                      "respType", "signature", "verify", "checkTime", "sendResult", "done">>
           Pos(p) == CHOOSE i \in DOMAIN order : order[i] = p
           Verified(h) ==
               Verify(h.bufPubKey,
                      BuildSignedDataTo(h.bufChallenge, h.timestamp, h.bufServerID,
                                        h.bufPubKey, h.cb),
                      h.bufSignature)
           InTime(h) == /\ ~TimestampInFuture(h.timestamp, h.now)
                        /\ ~ChallengeExpired(h.timestamp, h.now, h.ttl)
       IN     /\ hs'.pc # hs.pc => (hs'.pc = "done" \/ Pos(hs'.pc) = Pos(hs.pc) + 1)
              /\ hs'.sent # hs.sent =>
                    \/ /\ hs.pc = "sendChallenge" /\ hs'.pc = "respType" /\ hs.sent = <<>>
                       /\ hs'.sent = <<<<TypeServerChallenge, hs'.bufChallenge,
                                         hs'.bufTimestamp, hs'.bufServerID>>>>
                    \/ /\ hs.pc = "sendResult" /\ hs'.pc = "done" /\ hs'.err = "nil"
                       /\ Len(hs.sent) = 1
                       /\ hs'.sent = Append(hs.sent, <<TypeAuthResult, AuthStatusOK>>)
                       /\ Verified(hs) /\ InTime(hs)
              /\ hs'.bufPubKey # hs.bufPubKey => hs.pc = "pubKey"
              /\ hs'.bufSignature # hs.bufSignature => hs.pc = "signature"
              /\ hs'.cb # hs.cb => hs.pc = "verify"
              /\ hs'.now # hs.now => (hs.pc = "checkTime" /\ Verified(hs))
              /\ hs'.pc = "checkTime" => Verified(hs')
              /\ hs'.pc = "sendResult" => (Verified(hs') /\ InTime(hs'))
              /\ hs.pc = "helloType" =>
                    \A x \in Tags \ {TypeClientHello} :
                       LET h == ReadHelloTypeStep(hs, x)
                       IN  h.pc = "done" /\ h.err = "unexpected message type" /\ h.sent = hs.sent
              /\ hs.pc = "respType" =>
                    \A x \in Tags \ {TypeClientResponse} :
                       LET h == ReadRespTypeStep(hs, x)
                       IN  h.pc = "done" /\ h.err = "unexpected message type" /\ h.sent = hs.sent
              /\ hs.pc = "done" => (hs'.pc = "done" /\ hs'.sent = hs.sent /\ hs'.err = hs.err)]_vars

\* the handshake was aborted at the second read by a wrong type tag, with
\* the ServerChallenge the only frame written
C38_Witness ==
    /\ hs.pc = "done"
    /\ hs.err = "unexpected message type"
    /\ Len(hs.sent) = 1
    /\ hs.sent[1][1] = TypeServerChallenge

\* C39: once a peer is closed, by its handler's exit, by a takeover, by the
\* eviction of a slow consumer or by an error of its own write pump, its
\* write pump eventually returns, whether its outbound queue is empty or
\* still holds payloads.
C39_WritePumpTerminates ==
    \A c \in Conns :
        (peer[c].closeStep >= 1 /\ peer[c].wl \in {"run", "closing"})
            ~> (peer[c].wl \notin {"run", "closing"})

\* the write pump of a peer evicted as a slow consumer has returned with a
\* payload left on the queue
C39_Witness ==
    \E c \in Conns :
        /\ peer[c].closer = "deliver"
        /\ peer[c].wl = "done"
        /\ peer[c].writeCh # <<>>

=============================================================================
